---- MODULE Spec2Model ----
(***************************************************************************)
(* Model of the gastown daemon's lifecycle-and-health subsystem.           *)
(*                                                                         *)
(* Part 1: the mail-based lifecycle request processor                      *)
(* (Daemon.ProcessLifecycleRequests and what it calls).                    *)
(*                                                                         *)
(* Strings that the code takes apart (identities, session names, paths,    *)
(* subjects) are sequences of tokens: a token is a separator ("-", "/",    *)
(* ":") or a maximal run of other characters.  Prefix, suffix and          *)
(* substring tests against patterns made of whole tokens are then exact.   *)
(* Times are whole hours.                                                  *)
(***************************************************************************)
EXTENDS Integers, Sequences, FiniteSets, TLC

\* ------------------------------------------------------------------ bounds

\* Messages ever delivered to the deacon inbox.
MaxMsgs == 2
\* Heartbeat ticks (calls of ProcessLifecycleRequests) in one behaviour.
MaxTicks == 2
\* Hours the clock may advance.
MaxClock == 1
\* Calls of checkPatrolAgentHealth in one behaviour.
MaxPatrolTicks == 2
\* Times the patrol clock advances in one behaviour.
MaxAdvances == 2
\* Patrol agents that ever record a patrol completion in one behaviour.
MaxLabelled == 1
\* Lines the activity feed delivers.
MaxLines == 3
\* Calls of CheckConvoysForIssue by the other observers.
MaxObservations == 1
\* Calls of watchActivity by the watcher task.
MaxAttempts == 2
\* Sweep checks run in one behaviour.
MaxSweeps == 2
\* Hyphen-separated words of a town, rig or agent name.
MaxNameParts == 2
\* Hyphen-separated segments of a session name after its start.
MaxSegments == 4
\* Calls on a State in one behaviour, and seconds its clock runs.
MaxStateCalls == 3
MaxStateClock == 2
\* Seconds between two heartbeats of the stuck-agent runs, the last clock
\* reading, and the stuck kills of one agent that are counted.
StuckClockStep == 700
MaxStuckClock == 2100
MaxKills == 2

\* --------------------------------------------------------- program constants

\* MaxLifecycleMessageAge = 6 * time.Hour
MaxLifecycleMessageAge == 6

ActionCycle == "cycle"
ActionRestart == "restart"
ActionShutdown == "shutdown"
LifecycleActions == {ActionCycle, ActionRestart, ActionShutdown}

\* ------------------------------------------------------------ token strings

HasPrefix(s, p) == Len(s) >= Len(p) /\ SubSeq(s, 1, Len(p)) = p
HasSuffix(s, p) == Len(s) >= Len(p) /\ SubSeq(s, Len(s) - Len(p) + 1, Len(s)) = p
TrimSuffix(s, p) == IF HasSuffix(s, p) THEN SubSeq(s, 1, Len(s) - Len(p)) ELSE s
\* Positions at which pattern p occurs in s.
Occurrences(s, p) ==
    {i \in 1..Len(s) : i + Len(p) - 1 <= Len(s) /\ SubSeq(s, i, i + Len(p) - 1) = p}
Contains(s, p) == Occurrences(s, p) # {}
FirstOccurrence(s, p) == CHOOSE i \in Occurrences(s, p) : \A j \in Occurrences(s, p) : i <= j
\* strings.SplitN(s, p, 2) when p occurs in s: the text before and after the
\* first occurrence.
SplitFirst(s, p) ==
    LET i == FirstOccurrence(s, p)
    IN  <<SubSeq(s, 1, i - 1), SubSeq(s, i + Len(p), Len(s))>>
\* filepath.Join: the non-empty elements separated by "/".
RECURSIVE PathJoin(_)
PathJoin(elems) ==
    IF elems = <<>> THEN <<>>
    ELSE LET rest == PathJoin(Tail(elems))
         IN  IF Head(elems) = <<>> THEN rest
             ELSE IF rest = <<>> THEN Head(elems)
             ELSE Head(elems) \o <<"/">> \o rest

\* strings.ToLower on the words the model uses.
ToLowerWord(w) ==
    CASE w = "LIFECYCLE" -> "lifecycle"
      [] w = "Lifecycle" -> "lifecycle"
      [] w = "Restart"   -> "restart"
      [] w = "STOP"      -> "stop"
      [] w = "Stop"      -> "stop"
      [] w = "CYCLE"     -> "cycle"
      [] w = "SHUTDOWN"  -> "shutdown"
      [] OTHER           -> w
ToLower(s) == [i \in 1..Len(s) |-> ToLowerWord(s[i])]
\* strings.TrimSpace: a text is a token sequence in which " " is a token.
RECURSIVE TrimLeft(_)
TrimLeft(s) == IF s # <<>> /\ Head(s) = " " THEN TrimLeft(Tail(s)) ELSE s
RECURSIVE TrimRight(_)
TrimRight(s) ==
    IF s # <<>> /\ s[Len(s)] = " " THEN TrimRight(SubSeq(s, 1, Len(s) - 1)) ELSE s
TrimSpace(s) == TrimRight(TrimLeft(s))

\* ------------------------------------------------------------- environment

\* d.config.TownRoot, and the town name stored in its town.json.
TownRoot == <<"town">>
TownName == <<"ai">>

\* The identities lifecycle mail arrives from: a crew worker in the daemon's
\* dash form, and a witness in the mail-address (slash) form.
CrewId == <<"rig", "-", "crew", "-", "max">>
SlashId == <<"rig", "/", "witness">>
Identities == {CrewId, SlashId}

\* -------------------------------------------------------- identity resolver

NoIdentity == [ok |-> FALSE, RoleType |-> "", RigName |-> <<>>, AgentName |-> <<>>]
Parsed(role, rig, name) == [ok |-> TRUE, RoleType |-> role, RigName |-> rig, AgentName |-> name]

\* parseIdentity: the role, rig and agent name of an identity string.
parseIdentity(identity) ==
    IF identity = <<"mayor">> THEN Parsed("mayor", <<>>, <<>>)
    ELSE IF identity = <<"deacon">> THEN Parsed("deacon", <<>>, <<>>)
    ELSE IF HasSuffix(identity, <<"-", "witness">>)
        THEN Parsed("witness", TrimSuffix(identity, <<"-", "witness">>), <<>>)
    ELSE IF HasSuffix(identity, <<"-", "refinery">>)
        THEN Parsed("refinery", TrimSuffix(identity, <<"-", "refinery">>), <<>>)
    ELSE IF Contains(identity, <<"-", "crew", "-">>)
        THEN LET parts == SplitFirst(identity, <<"-", "crew", "-">>)
             IN  Parsed("crew", parts[1], parts[2])
    ELSE IF Contains(identity, <<"-", "polecat", "-">>)
        THEN LET parts == SplitFirst(identity, <<"-", "polecat", "-">>)
             IN  Parsed("polecat", parts[1], parts[2])
    ELSE IF Cardinality(Occurrences(identity, <<"/", "polecats", "/">>)) = 1
        THEN LET parts == SplitFirst(identity, <<"/", "polecats", "/">>)
             IN  Parsed("polecat", parts[1], parts[2])
    ELSE NoIdentity

\* workspace.GetTownName: the name in the town's configuration file.
GetTownName(townRoot) == [err |-> FALSE, name |-> TownName]

\* session.MayorSessionName .. session.PolecatSessionName
MayorSessionName(town) == <<"gt", "-">> \o town \o <<"-", "mayor">>
DeaconSessionName(town) == <<"gt", "-">> \o town \o <<"-", "deacon">>

\* identityToSession with no role-bead session pattern: the default patterns.
\* <<>> is the empty string (unknown identity).
identityToSession(identity) ==
    LET parsed == parseIdentity(identity)
        town == GetTownName(TownRoot)
    IN  IF ~parsed.ok THEN <<>>
        ELSE CASE parsed.RoleType = "mayor" ->
                    IF ~town.err THEN MayorSessionName(town.name) ELSE <<>>
               [] parsed.RoleType = "deacon" ->
                    IF ~town.err THEN DeaconSessionName(town.name) ELSE <<>>
               [] parsed.RoleType \in {"witness", "refinery"} ->
                    <<"gt", "-">> \o parsed.RigName \o <<"-", parsed.RoleType>>
               [] parsed.RoleType = "crew" ->
                    <<"gt", "-">> \o parsed.RigName \o <<"-", "crew", "-">> \o parsed.AgentName
               [] parsed.RoleType = "polecat" ->
                    <<"gt", "-">> \o parsed.RigName \o <<"-">> \o parsed.AgentName
               [] OTHER -> <<>>

\* getWorkDir with no role-bead work_dir_pattern: the default directories.
getWorkDir(parsed) ==
    CASE parsed.RoleType = "mayor" -> TownRoot
      [] parsed.RoleType = "deacon" -> TownRoot
      [] parsed.RoleType = "witness" -> PathJoin(<<TownRoot, parsed.RigName>>)
      [] parsed.RoleType = "refinery" ->
            PathJoin(<<TownRoot, parsed.RigName, <<"refinery">>, <<"rig">>>>)
      [] parsed.RoleType = "crew" ->
            PathJoin(<<TownRoot, parsed.RigName, <<"crew">>, parsed.AgentName>>)
      [] parsed.RoleType = "polecat" ->
            PathJoin(<<TownRoot, parsed.RigName, <<"polecats">>, parsed.AgentName>>)
      [] OTHER -> <<>>

\* identityToStateFile: the path of the agent's state.json, <<>> if unknown.
identityToStateFile(identity) ==
    LET parsed == parseIdentity(identity)
        workDir == IF parsed.ok THEN getWorkDir(parsed) ELSE <<>>
    IN  IF ~parsed.ok \/ workDir = <<>> THEN <<>>
        ELSE CASE parsed.RoleType = "mayor" ->
                    PathJoin(<<TownRoot, <<"mayor">>, <<"state.json">>>>)
               [] parsed.RoleType = "deacon" ->
                    PathJoin(<<TownRoot, <<"deacon">>, <<"state.json">>>>)
               [] parsed.RoleType = "witness" ->
                    PathJoin(<<TownRoot, parsed.RigName, <<"witness">>, <<"state.json">>>>)
               [] parsed.RoleType = "refinery" ->
                    PathJoin(<<TownRoot, parsed.RigName, <<"refinery">>, <<"state.json">>>>)
               [] OTHER -> PathJoin(<<workDir, <<"state.json">>>>)

\* The sessions and state files of the agents that can send requests.
SessionNames == {identityToSession(i) : i \in Identities} \ {<<>>}
StatePaths == {identityToStateFile(i) : i \in Identities} \ {<<>>}

\* ------------------------------------------------------------- state files

\* A state.json file: absent, unparseable, or a JSON object.  A key's value is
\* "true", "false", "other" (not a boolean) or "missing".
StateKeys == {"requesting_cycle", "requesting_restart", "requesting_shutdown",
              "requesting_time", "role"}
NoKeys == [k \in StateKeys |-> "missing"]
AbsentFile == [kind |-> "absent", obj |-> NoKeys]
GarbageFile == [kind |-> "garbage", obj |-> NoKeys]
JsonFile(obj) == [kind |-> "json", obj |-> obj]
NotRead == [kind |-> "unread", obj |-> NoKeys]

\* key := "requesting_" + string(action)
RequestingKey(action) ==
    CASE action = ActionCycle -> "requesting_cycle"
      [] action = ActionRestart -> "requesting_restart"
      [] action = ActionShutdown -> "requesting_shutdown"

\* What an agent writes before it asks for a transition, with the flag's value.
Staged(action, value) ==
    JsonFile([NoKeys EXCEPT ![RequestingKey(action)] = value,
                            !["requesting_time"] = "other",
                            !["role"] = "other"])
\* The contents agents (or anything else) leave in a state file.
FileContents ==
    {AbsentFile, GarbageFile, JsonFile([NoKeys EXCEPT !["role"] = "other"])}
    \cup {Staged(a, "true") : a \in LifecycleActions}
    \cup {Staged(ActionCycle, "false"), Staged(ActionCycle, "other")}

\* ---------------------------------------------------------------- messages

\* A message body: a JSON object with the given "action" member ("" when it
\* has none), or text that does not decode into LifecycleBody.
JsonBody(action) == [json |-> TRUE, action |-> action, text |-> <<>>]
TextBody(text) == [json |-> FALSE, action |-> "", text |-> text]
\* json.Unmarshal([]byte(msg.Body), &body)
jsonUnmarshalBody(body) ==
    IF body.json THEN [err |-> FALSE, Action |-> body.action]
    ELSE [err |-> TRUE, Action |-> ""]

NoRequest == [ok |-> FALSE, id |-> 0, From |-> <<>>, Action |-> ""]

\* Mutant: keyword matching, any text that mentions "restart" is a restart.
FallbackKeyword(text) ==
    IF \E i \in 1..Len(text) : ToLowerWord(text[i]) = "restart" THEN "restart" ELSE ""

\* The fallback for a body that does not decode: "" when no fallback matches.
FallbackAction(text) ==
    LET bodyLower == ToLower(TrimSpace(text))
    IN  CASE bodyLower = <<"restart">> \/ bodyLower = <<"action", ":", " ", "restart">> -> "restart"
          [] bodyLower = <<"shutdown">> \/ bodyLower = <<"action", ":", " ", "shutdown">>
                \/ bodyLower = <<"stop">> -> "shutdown"
          [] bodyLower = <<"cycle">> \/ bodyLower = <<"action", ":", " ", "cycle">> -> "cycle"
          [] OTHER -> ""

\* The action enum for an action string, "" when unknown.
ActionOf(str) ==
    LET a == ToLowerWord(str)
    IN  CASE a = "restart" -> ActionRestart
          [] a \in {"shutdown", "stop"} -> ActionShutdown
          [] a = "cycle" -> ActionCycle
          [] OTHER -> ""

\* parseLifecycleRequest: the request a message carries, NoRequest (nil) if none.
parseLifecycleRequest(msg) ==
    LET subject == ToLower(msg.subject)
        decoded == jsonUnmarshalBody(msg.body)
        actionStr == IF decoded.err THEN FallbackAction(msg.body.text) ELSE decoded.Action
        action == ActionOf(actionStr)
    IN  IF ~HasPrefix(subject, <<"lifecycle", ":">>) THEN NoRequest
        ELSE IF decoded.err /\ actionStr = "" THEN NoRequest
        ELSE IF action = "" THEN NoRequest
        ELSE [ok |-> TRUE, id |-> msg.id, From |-> msg.from, Action |-> action]

\* Mutant: a message exactly MaxLifecycleMessageAge old is already stale.
IsStaleAtMaxAge(msg, clock) == msg.ts.valid /\ clock - msg.ts.t >= MaxLifecycleMessageAge

\* The staleness gate: the timestamp parses and age > MaxLifecycleMessageAge.
IsStale(msg, clock) == msg.ts.valid /\ clock - msg.ts.t > MaxLifecycleMessageAge

\* ------------------------------------------------------------------- state

VARIABLES
    inbox,      \* the deacon inbox: messages in inbox order
    nextId,     \* id of the next message delivered
    files,      \* state.json of each agent, by path
    sessions,   \* names of the live tmux sessions
    now,        \* the clock, in hours
    pc,         \* where ProcessLifecycleRequests stands ("idle": not running)
    messages,   \* its snapshot of the inbox
    idx,        \* index of the message being handled
    request,    \* the request being handled
    ticks,      \* calls of ProcessLifecycleRequests so far
    log,        \* history: what the current call has done, in order
    seen,       \* history: the state file as read by the last verification
    actionRuns, \* history: per message id, the runs of executeLifecycleAction
                \* that issued a session kill or creation
    clockSec,   \* the clock of the patrol health checks, in seconds
    advances,   \* times the patrol clock has advanced
    alive,      \* patrol roles whose tmux session exists
    lastActivity, \* per patrol role, the last_activity label of its agent bead
    disabled,   \* patrols switched off in mayor/daemon.json
    patrolPc,   \* where checkPatrolAgentHealth stands ("idle": not running)
    patrolTicks, \* calls of checkPatrolAgentHealth so far
    verdict,    \* history: per patrol role, what the current call did with it
    nudged,     \* history: roles nudged since their session started
    firstDead,  \* history: per role, when a check first found the session dead
    eval,       \* the last direct call of checkAgentHealth / handleStuckAgent
    issueStatus, \* the store: status of each work item
    convoyStatus, \* the store: status of each convoy
    deps,       \* the store: the dependencies table
    feed,       \* lines of bd activity the watcher has not read yet
    delivered,  \* lines written to the feed so far
    watchPc,    \* where the watcher stands ("idle": waiting for a line)
    event,      \* the line the watcher read last
    convoyIDs,  \* the tracking convoys it has still to check
    wlog,       \* history: its checkConvoyCompletion calls for that line
    observed,   \* history: the last call of CheckConvoysForIssue
    observations, \* calls of CheckConvoysForIssue so far
    runPc,      \* where the watcher task stands ("unstarted", ..., "returned")
    cancelled,  \* the watcher's context is cancelled
    sub,        \* the bd activity process of the current subscription
    stopPc,     \* where the caller of Stop stands
    attempts,   \* calls of watchActivity so far
    sinceEnd,   \* seconds run has waited since watchActivity last returned
    gap,        \* history: that wait at the latest call of watchActivity
    endedBy,    \* history: how the latest call of watchActivity ended
    lines,      \* history: lines handed to processLine in this subscription
    openedCancelled, \* history: bd activity was started under a cancelled context
    obsPc,      \* where a stepwise call of CheckConvoysForIssue stands
    obsIDs,     \* the tracking convoys it has still to look at
    agents,     \* the store: the agent beads, by id
    sweeps,     \* sweep checks run so far
    swept,      \* history: what the last sweep check did
    given,      \* the identity or session name a conversion starts from
    session,    \* the session name
    parseResult, \* the result of ParseSessionName
    rebuilt,    \* the session name of the identity parsed
    resolved,   \* the session and state file the daemon resolves a sender to
    stateAgents, \* State.Agents: the entry of each agent that has one
    stateClock, \* time.Now() for the calls on the State, in seconds
    stateCalls, \* calls on the State so far
    stateCall,  \* history: the last call on the State
    staleMessages,   \* LifecycleHygieneCheck.staleMessages
    stuckStateFiles, \* LifecycleHygieneCheck.stuckStateFiles
    doctorPc,   \* gt doctor --fix: "idle", "ran" (after Run) or "fixed" (after Fix)
    takenUp,    \* history: ids of the requests the daemon has taken up
    hygiene,    \* history: what Run and Fix found and removed
    kills       \* history: per patrol role, stuck kills since its last heartbeat

lifecycleVars == <<inbox, nextId, files, sessions, now, pc, messages, idx,
                   request, ticks, log, seen, actionRuns>>
patrolVars == <<clockSec, advances, alive, lastActivity, disabled, patrolPc,
                patrolTicks, verdict, nudged, firstDead, eval>>
convoyVars == <<issueStatus, convoyStatus, deps, feed, delivered, watchPc, event,
                convoyIDs, wlog, observed, observations>>
runVars == <<runPc, cancelled, sub, stopPc, attempts, sinceEnd, gap, endedBy,
             lines, openedCancelled>>
\* The groups the first three leave alone, and those the watcher task does.
raceVars == <<obsPc, obsIDs>>
sweepVars == <<agents, sweeps, swept>>
identVars == <<given, session, parseResult, rebuilt, resolved>>
stateVars == <<stateAgents, stateClock, stateCalls, stateCall>>
doctorVars == <<staleMessages, stuckStateFiles, doctorPc, takenUp, hygiene>>
stuckVars == <<kills>>
lateVars == <<stateVars, doctorVars, stuckVars>>
restVars == <<runVars, raceVars, sweepVars, identVars, lateVars>>
offWatch == <<lifecycleVars, patrolVars, raceVars, sweepVars, identVars, lateVars>>
offRace == <<lifecycleVars, patrolVars, runVars, sweepVars, identVars, lateVars>>
offSweep == <<lifecycleVars, patrolVars, convoyVars, runVars, raceVars, identVars, lateVars>>
offIdent == <<lifecycleVars, patrolVars, convoyVars, runVars, raceVars, sweepVars, lateVars>>
offState == <<lifecycleVars, patrolVars, convoyVars, runVars, raceVars, sweepVars, identVars,
              doctorVars, stuckVars>>
offHygiene == <<patrolVars, convoyVars, runVars, raceVars, sweepVars, identVars, stateVars,
                stuckVars>>
offStuck == <<lifecycleVars, convoyVars, runVars, raceVars, sweepVars, identVars, stateVars,
              doctorVars>>
vars == <<lifecycleVars, patrolVars, convoyVars, restVars>>

MsgIds == 1..MaxMsgs
InboxIds == {inbox[i].id : i \in 1..Len(inbox)}
\* A history event.  The "begin" of a request records its action and the time
\* it was taken up; "verify" records what the state file held for the flag;
\* "probe" records whether the session was found.
Event(id, op, ok, at, note) == [id |-> id, op |-> op, ok |-> ok, at |-> at, note |-> note]
Ev(id, op, ok) == Event(id, op, ok, 0, "")
Begin(req) == Event(req.id, "begin", TRUE, now, req.Action)
\* What a state file holds for the requesting flag of an action.
Observed(file, action) ==
    IF file.kind # "json" THEN file.kind ELSE file.obj[RequestingKey(action)]
sessionName == identityToSession(request.From)
stateFile == identityToStateFile(request.From)

\* The inbox after `gt mail delete id`.
RECURSIVE WithoutId(_, _)
WithoutId(box, id) ==
    IF box = <<>> THEN <<>>
    ELSE IF Head(box).id = id THEN WithoutId(Tail(box), id)
    ELSE <<Head(box)>> \o WithoutId(Tail(box), id)

\* Mutant: the delete command reports success and removes nothing.
closeMessageKeeps(id, ok) ==
    /\ inbox' = inbox
    /\ log' = Append(log, Ev(id, "delete", ok))

\* closeMessage: `gt mail delete`; on an error the mailbox is unchanged.
closeMessage(id, ok) ==
    /\ inbox' = IF ok THEN WithoutId(inbox, id) ELSE inbox
    /\ log' = Append(log, Ev(id, "delete", ok))

\* Mutant: any value of the flag passes, not only the boolean true.
verifyAnyValue(identity, action) ==
    LET path == identityToStateFile(identity)
        file == files[path]
    IN  IF path = <<>> THEN ""
        ELSE IF file.kind = "absent" THEN "agent state file not found"
        ELSE IF file.kind # "json" THEN "parsing agent state"
        ELSE IF file.obj[RequestingKey(action)] = "missing" THEN "agent state missing field"
        ELSE ""

\* verifyAgentRequestingState: "" (nil) or the error.
verifyAgentRequestingState(identity, action) ==
    LET path == identityToStateFile(identity)
        file == files[path]
        val == file.obj[RequestingKey(action)]
    IN  IF path = <<>> THEN ""
        ELSE IF file.kind = "absent" THEN "agent state file not found"
        ELSE IF file.kind # "json" THEN "parsing agent state"
        ELSE IF val = "missing" THEN "agent state missing field"
        ELSE IF val # "true" THEN "agent state is not true"
        ELSE ""

\* Mutant: the whole object is dropped instead of the two keys.
ClearedStateEmpty(file, action) == JsonFile(NoKeys)

\* clearAgentRequestingState's new file content: the requesting_<action> and
\* requesting_time keys removed.
ClearedState(file, action) ==
    JsonFile([file.obj EXCEPT ![RequestingKey(action)] = "missing",
                              !["requesting_time"] = "missing"])

\* clearAgentRequestingState: "" (nil) or the error.  io is the outcome of the
\* file system calls: "readFailed" (os.ReadFile fails, or the file has gone or
\* no longer parses since the verification), "writeFailed" (os.WriteFile
\* fails) or "ok".
clearAgentRequestingState(identity, action, io) ==
    LET path == identityToStateFile(identity)
    IN  IF path = <<>> THEN "cannot determine state file"
        ELSE IF io = "readFailed" \/ files[path].kind = "absent" THEN "reading state file"
        ELSE IF files[path].kind # "json" THEN "parsing state"
        ELSE IF io = "writeFailed" THEN "writing state file"
        ELSE ""

\* ------------------------------------------------- patrol health: values

\* DefaultStuckThreshold = 15 * time.Minute, in seconds
DefaultStuckThreshold == 900
\* DefaultRespawnDelay = 30 * time.Second
DefaultRespawnDelay == 30
\* CriticalStuckThreshold = 30 * time.Minute, in seconds
CriticalStuckThreshold == 1800

StatusHealthy == "healthy"
StatusNeedsRespawn == "needs_respawn"
StatusWaitingRespawn == "waiting_respawn"
StatusStuck == "stuck"

\* A time.Time: the zero time, or a moment in seconds.
ZeroTime == [set |-> FALSE, t |-> 0]
At(t) == [set |-> TRUE, t |-> t]
IsZero(time) == ~time.set
\* time.Since(time) when the clock reads clock
Since(time, clock) == clock - time.t

\* The patrol agents: the deacon, and the witness and refinery of the one rig.
PatrolRoles == {"deacon", "witness", "refinery"}
KnownRig == <<"gastown">>

RespawnConfig(delay, stuck, trigger) ==
    [Delay |-> delay, StuckThreshold |-> stuck, Trigger |-> trigger]
DefaultRespawnConfigs ==
    [deacon   |-> RespawnConfig(300, 900, "always"),
     witness  |-> RespawnConfig(300, 600, "always"),
     refinery |-> RespawnConfig(0, 300, "mq-not-empty")]
\* Mutant: a role the table does not have gets the zero policy.
GetRespawnConfigZeroDefault(role) ==
    IF role \in DOMAIN DefaultRespawnConfigs THEN DefaultRespawnConfigs[role]
    ELSE RespawnConfig(0, 0, "")

GetRespawnConfig(role) ==
    IF role \in DOMAIN DefaultRespawnConfigs THEN DefaultRespawnConfigs[role]
    ELSE RespawnConfig(300, 900, "always")

AgentHealthConfig(role, stuck, delay, lastDeath) ==
    [Role |-> role,
     RigName |-> IF role = "deacon" THEN <<>> ELSE KnownRig,
     SessionName |-> IF role = "deacon" THEN DeaconSessionName(TownName)
                     ELSE <<"gt", "-">> \o KnownRig \o <<"-", role>>,
     StuckThreshold |-> stuck,
     RespawnDelay |-> delay,
     LastDeath |-> lastDeath]

\* Mutant: the delay must be exceeded, not just reached.
respawnDelayExceeded(config, clock) ==
    IF IsZero(config.LastDeath) THEN TRUE
    ELSE Since(config.LastDeath, clock) > config.RespawnDelay

\* respawnDelayElapsed
respawnDelayElapsed(config, clock) ==
    IF IsZero(config.LastDeath) THEN TRUE
    ELSE Since(config.LastDeath, clock) >= config.RespawnDelay

\* getLastPatrolCompleted: the last_activity time of the role's agent bead,
\* the zero time when the bead cannot be read or has no such label.
getLastPatrolCompleted(label, bdOk) == IF bdOk THEN label ELSE ZeroTime

\* Mutant: a heartbeat exactly StuckThreshold old is already stale.
HeartbeatStaleAtThreshold(age, threshold) == age >= threshold

\* result.HeartbeatAge > config.StuckThreshold
HeartbeatStale(age, threshold) == age > threshold

AgentHealthResult(status, sessionAlive, age, lastHeartbeat, message) ==
    [Status |-> status, SessionAlive |-> sessionAlive, HeartbeatAge |-> age,
     LastHeartbeat |-> lastHeartbeat, Message |-> message]
NoResult == AgentHealthResult("", FALSE, 0, ZeroTime, "")

\* Mutant: a stale heartbeat outranks a dead session.
checkAgentHealthStaleFirst(config, probe, lastHeartbeat, clock) ==
    LET age == IF IsZero(lastHeartbeat) THEN 0 ELSE Since(lastHeartbeat, clock)
    IN  IF probe = "error"
        THEN AgentHealthResult(StatusHealthy, FALSE, 0, ZeroTime, "error checking session")
        ELSE IF age > config.StuckThreshold /\ ~IsZero(lastHeartbeat)
        THEN AgentHealthResult(StatusStuck, probe = "alive", age, lastHeartbeat, "heartbeat stale")
        ELSE IF probe = "dead"
        THEN AgentHealthResult(StatusNeedsRespawn, FALSE, age, lastHeartbeat,
                               "session dead, respawn delay elapsed")
        ELSE AgentHealthResult(StatusHealthy, TRUE, age, lastHeartbeat, "healthy")

\* checkAgentHealth.  probe is the outcome of tmux.HasSession ("error",
\* "alive" or "dead"), lastHeartbeat what getLastPatrolCompleted returned.
checkAgentHealth(config, probe, lastHeartbeat, clock) ==
    LET sessionAlive == probe = "alive"
        age == IF IsZero(lastHeartbeat) THEN 0 ELSE Since(lastHeartbeat, clock)
    IN  IF probe = "error"
        THEN AgentHealthResult(StatusHealthy, FALSE, 0, ZeroTime, "error checking session")
        ELSE IF ~sessionAlive /\ respawnDelayElapsed(config, clock)
        THEN AgentHealthResult(StatusNeedsRespawn, sessionAlive, age, lastHeartbeat,
                               "session dead, respawn delay elapsed")
        ELSE IF ~sessionAlive
        THEN AgentHealthResult(StatusWaitingRespawn, sessionAlive, age, lastHeartbeat,
                               "session dead, waiting for respawn delay")
        ELSE IF sessionAlive /\ HeartbeatStale(age, config.StuckThreshold)
        THEN IF IsZero(lastHeartbeat)
             THEN AgentHealthResult(StatusHealthy, sessionAlive, age, lastHeartbeat,
                                    "no heartbeat yet (first startup)")
             ELSE AgentHealthResult(StatusStuck, sessionAlive, age, lastHeartbeat,
                                    "session alive but heartbeat stale")
        ELSE AgentHealthResult(StatusHealthy, sessionAlive, age, lastHeartbeat,
                               IF age > 0 THEN "healthy, last heartbeat" ELSE "healthy")

\* Mutant: a stuck agent is only ever nudged.
RemediationNudge(result) == "nudge"

\* Mutant: every stuck agent is killed.
RemediationKill(result) == "kill"

\* handleStuckAgent: which remediation it attempts.
Remediation(result) ==
    IF result.HeartbeatAge > CriticalStuckThreshold THEN "kill" ELSE "nudge"

\* What one check of one agent did: the configuration it built, the probe
\* outcome, the heartbeat getLastPatrolCompleted returned, the result, and the
\* remediation attempted ("none", "nudge",
\* "kill") with its outcome.
Verdict(config, probe, heartbeat, result, remediation, ok, at) ==
    [checked |-> TRUE, config |-> config, probe |-> probe, heartbeat |-> heartbeat,
     result |-> result, remediation |-> remediation, ok |-> ok, at |-> at]
NoVerdict ==
    [checked |-> FALSE, config |-> AgentHealthConfig("deacon", 0, 0, ZeroTime),
     probe |-> "", heartbeat |-> ZeroTime, result |-> NoResult,
     remediation |-> "none", ok |-> TRUE, at |-> 0]

\* No patrol health check has run.
PatrolQuiet ==
    /\ clockSec = 0
    /\ advances = 0
    /\ alive = {}
    /\ lastActivity = [r \in PatrolRoles |-> ZeroTime]
    /\ disabled = {}
    /\ patrolPc = "idle"
    /\ patrolTicks = 0
    /\ verdict = [r \in PatrolRoles |-> NoVerdict]
    /\ nudged = {}
    /\ firstDead = [r \in PatrolRoles |-> ZeroTime]
    /\ eval = NoVerdict

\* ------------------------------------------------------ convoy watcher: values

\* The work items of the store and the convoys that track them.
Items == {"gt-x", "gt-y", "gt-z"}
Convoys == {"hq-cv-1", "hq-cv-2"}

\* The two forms of a depends_on_id: the item's id, or an external reference
\* that ends in ":<id>".
DirectRef(id) == <<id>>
ExternalRef(id) == <<"external", ":", "gastown", ":", id>>
\* A row of the dependencies table.
Dependency(issue, dependsOn, type) ==
    [issue_id |-> issue, depends_on_id |-> dependsOn, type |-> type]

\* Dependency tables.  In the first, gt-x is tracked by both convoys, by its id
\* and by an external reference; in the second, one convoy tracks gt-x in both
\* forms and the other depends on it without tracking it.
SharedItemTable ==
    { Dependency("hq-cv-1", DirectRef("gt-x"), "tracks"),
      Dependency("hq-cv-1", ExternalRef("gt-y"), "tracks"),
      Dependency("hq-cv-2", ExternalRef("gt-x"), "tracks"),
      Dependency("hq-cv-2", DirectRef("gt-z"), "tracks") }
TwiceTrackedTable ==
    { Dependency("hq-cv-1", DirectRef("gt-x"), "tracks"),
      Dependency("hq-cv-1", ExternalRef("gt-x"), "tracks"),
      Dependency("hq-cv-2", DirectRef("gt-x"), "blocks"),
      Dependency("hq-cv-2", DirectRef("gt-y"), "tracks") }
DependencyTables == {SharedItemTable, TwiceTrackedTable}

\* A line of bd activity --json: empty, not JSON, or an event.
EmptyLine == [kind |-> "empty", Type |-> "", IssueID |-> "", NewStatus |-> ""]
MalformedLine == [kind |-> "malformed", Type |-> "", IssueID |-> "", NewStatus |-> ""]
bdActivityEvent(type, issue, status) ==
    [kind |-> "json", Type |-> type, IssueID |-> issue, NewStatus |-> status]
\* Mutant: every status change passes the filter.
IsCloseAnyStatus(line) == line.kind = "json" /\ line.Type = "status"

\* The filter of processLine: a status change to closed.
IsClose(line) == line.kind = "json" /\ line.Type = "status" /\ line.NewStatus = "closed"

\* What the watcher made of the line it read last.
LineRead(line, detected, queryOk) ==
    [read |-> TRUE, line |-> line, detected |-> detected, queryOk |-> queryOk]
NoEvent == [read |-> FALSE, line |-> EmptyLine, detected |-> FALSE, queryOk |-> TRUE]

\* Mutant: only the direct id is matched.
TracksItemDirect(row, issueID) ==
    row.type = "tracks" /\ row.depends_on_id = <<issueID>>

\* The WHERE clause of getTrackingConvoys:
\* type = 'tracks' AND (depends_on_id = X OR depends_on_id LIKE '%:X').
TracksItem(row, issueID) ==
    /\ row.type = "tracks"
    /\ \/ row.depends_on_id = <<issueID>>
       \/ HasSuffix(row.depends_on_id, <<":", issueID>>)

\* getTrackingConvoys: the distinct issue_ids of the matching rows; nil when
\* the sqlite3 call fails or its output does not parse.
getTrackingConvoys(table, issueID, queryOk) ==
    IF queryOk THEN {row.issue_id : row \in {r \in table : TracksItem(r, issueID)}}
    ELSE {}

\* The orders in which a query can return a set of rows.
Orderings(S) ==
    {s \in [1..Cardinality(S) -> S] : \A x \in S : \E i \in 1..Cardinality(S) : s[i] = x}

\* The item a depends_on_id resolves to.
RefersTo(ref) == ref[Len(ref)]
\* The items a convoy tracks, and whether all of them are closed.
TrackedItems(table, c) ==
    {RefersTo(row.depends_on_id) : row \in {r \in table : r.issue_id = c /\ r.type = "tracks"}}
Complete(table, issues, c) == \A i \in TrackedItems(table, c) : issues[i] = "closed"

\* gt convoy check [id]: re-verifies the completion of the given convoys (all
\* of them when no id is given) and closes those that are open and complete.
\* A failed run changes nothing.
ConvoyCheck(ids, table, issues, statuses, ok) ==
    IF ok
    THEN [c \in Convoys |->
            IF c \in ids /\ Complete(table, issues, c) THEN "closed" ELSE statuses[c]]
    ELSE statuses

\* Mutant: no convoy is taken to be closed already.
AlreadyClosedNever(status) == FALSE

\* The early return of checkConvoyCompletion on a closed convoy.
AlreadyClosed(status) == status = "closed"

\* isConvoyClosed: false also when the status query fails.
isConvoyClosed(statuses, convoyID, queryOk) ==
    queryOk /\ statuses[convoyID] = "closed"

\* runConvoyCheck: gt convoy check without an id.
runConvoyCheck(table, issues, statuses, ok) ==
    ConvoyCheck(Convoys, table, issues, statuses, ok)

\* One pass of a completion-check loop over one convoy: the status it had, what
\* the status query gave, whether gt convoy check was run and how it ended,
\* and the convoy statuses before and after.
Turn(convoy, was, queryOk, ran, checkOk, complete, before, after) ==
    [convoy |-> convoy, was |-> was, ok |-> queryOk, ran |-> ran,
     checkOk |-> checkOk, complete |-> complete, before |-> before, after |-> after]

\* The loop of CheckConvoysForIssue over the tracking convoys, in order; failed
\* are the convoys whose status query fails, okChecks those whose run of
\* gt convoy check succeeds.
RECURSIVE ObserveConvoys(_, _, _, _, _, _)
ObserveConvoys(ids, table, issues, statuses, failed, okChecks) ==
    IF ids = <<>> THEN <<>>
    ELSE LET convoyID == Head(ids)
             skip == isConvoyClosed(statuses, convoyID, convoyID \notin failed)
             after == IF skip THEN statuses
                      ELSE runConvoyCheck(table, issues, statuses, convoyID \in okChecks)
         IN  <<Turn(convoyID, statuses[convoyID], convoyID \notin failed, ~skip,
                    convoyID \in okChecks, Complete(table, issues, convoyID),
                    statuses, after)>>
             \o ObserveConvoys(Tail(ids), table, issues, after, failed, okChecks)

\* What the last call of CheckConvoysForIssue did.
Observation(issue, queryOk, turns, before, after) ==
    [called |-> TRUE, issue |-> issue, ok |-> queryOk, turns |-> turns,
     before |-> before, after |-> after]
NoObservation ==
    [called |-> FALSE, issue |-> "", ok |-> TRUE, turns |-> <<>>,
     before |-> [c \in Convoys |-> "open"], after |-> [c \in Convoys |-> "open"]]

\* The watcher has read nothing and nothing has closed.
ConvoyQuiet ==
    /\ issueStatus = [i \in Items |-> "open"]
    /\ convoyStatus = [c \in Convoys |-> "open"]
    /\ deps = SharedItemTable
    /\ feed = <<>>
    /\ delivered = 0
    /\ watchPc = "idle"
    /\ event = NoEvent
    /\ convoyIDs = <<>>
    /\ wlog = <<>>
    /\ observed = NoObservation
    /\ observations = 0

\* ------------------------------------------------ convoy watcher task: values

\* The wait of run before it calls watchActivity again after an error, seconds.
RetryBackoff == 5

\* How a call of watchActivity ended.
EndNone == "none"
EndStartError == "start error"
EndStreamError == "stream error"
EndClean == "clean exit"
EndCancelled == "cancelled"
\* Whether watchActivity returned an error (nil after a clean end of the stream
\* and after it saw the cancellation itself).
ReturnsError(end) == end \in {EndStartError, EndStreamError}

\* Mutant: the cancellation is never seen.
ctxDoneNever(c) == FALSE

\* <-w.ctx.Done() is ready.
ctxDone(c) == c

\* run after watchActivity returned: wait only when it returned an error.
AfterWatchActivity(end) == IF ReturnsError(end) THEN "backoff" ELSE "select"

\* The watcher task has not been started.
RunQuiet ==
    /\ runPc = "unstarted"
    /\ cancelled = FALSE
    /\ sub = "none"
    /\ stopPc = "idle"
    /\ attempts = 0
    /\ sinceEnd = 0
    /\ gap = 0
    /\ endedBy = EndNone
    /\ lines = <<>>
    /\ openedCancelled = FALSE

\* ------------------------------------------------------------------- Init

\* No lifecycle request has been delivered or processed.
LifecycleQuiet ==
    /\ inbox = <<>>
    /\ nextId = 1
    /\ files \in [StatePaths -> {AbsentFile}]
    /\ sessions = {}
    /\ now = 0
    /\ pc = "idle"
    /\ messages = <<>>
    /\ idx = 0
    /\ request = NoRequest
    /\ ticks = 0
    /\ log = <<>>
    /\ seen = NotRead
    /\ actionRuns = [i \in MsgIds |-> 0]

\* ------------------------------------------------------ sweep checks: values

\* Seconds an agent may report running without an update before it is marked
\* dead, and seconds it may sit on hooked work before its witness is told.
DeadAgentTimeout == 900
GUPPViolationTimeout == 1800

\* The rigs of mayor/rigs.json.
Gastown == <<"gastown">>
GastownWeb == <<"gastown", "-", "web">>
SweepRigs == {Gastown, GastownWeb}

\* Agent bead ids.
DeaconBeadID == <<"hq", "-", "deacon">>
MayorBeadID == <<"hq", "-", "mayor">>
WitnessBeadID(rig) == <<"gt", "-">> \o rig \o <<"-", "witness">>
RefineryBeadID(rig) == <<"gt", "-">> \o rig \o <<"-", "refinery">>
CrewBeadID(rig, name) == <<"gt", "-">> \o rig \o <<"-", "crew", "-">> \o name
PolecatPrefix == <<"gt", "-", "polecat", "-">>
PolecatBeadID(rig, name) == PolecatPrefix \o rig \o <<"-">> \o name

\* The agent beads of the store, with the role and rig each belongs to.
AgentBeads ==
    { [id |-> DeaconBeadID, role |-> "deacon", rig |-> <<>>],
      [id |-> WitnessBeadID(Gastown), role |-> "witness", rig |-> Gastown],
      [id |-> CrewBeadID(Gastown, <<"max">>), role |-> "crew", rig |-> Gastown],
      [id |-> PolecatBeadID(Gastown, <<"toast">>), role |-> "polecat", rig |-> Gastown],
      [id |-> PolecatBeadID(Gastown, <<"mad", "-", "max">>), role |-> "polecat",
       rig |-> Gastown],
      [id |-> PolecatBeadID(GastownWeb, <<"nux">>), role |-> "polecat",
       rig |-> GastownWeb] }
AgentIds == {b.id : b \in AgentBeads}

\* An agent bead: the agent_state of its description (what bd show gives
\* getAgentBeadInfo), its hook_bead, the age of its updated_at in seconds,
\* whether that timestamp parses, and its agent_state column (what bd list
\* gives).  An agent reports its state to both.
AgentRecord(state, hook, age, tsOk) ==
    [state |-> state, hook |-> hook, age |-> age, tsOk |-> tsOk, column |-> state]
IdleRecord == AgentRecord("idle", <<>>, 0, TRUE)
AgentStates == {"running", "working", "idle", "dead"}
HookBeads == {<<>>, <<"gt-task">>}
UpdateAges == {DeadAgentTimeout, DeadAgentTimeout + 1,
               GUPPViolationTimeout, GUPPViolationTimeout + 1}
AgentRecords ==
    {AgentRecord(s, h, a, t) : s \in AgentStates, h \in HookBeads, a \in UpdateAges,
                               t \in BOOLEAN}

\* The test of the sweeps on the state an agent reports.
ReportsActive(state) == state = "running" \/ state = "working"

\* checkStaleAgents: age > DeadAgentTimeout.
IsStaleAgent(age) == age > DeadAgentTimeout

\* checkRigGUPPViolations: age > GUPPViolationTimeout.
IsGUPPViolation(age) == age > GUPPViolationTimeout

\* The bead ids checkStaleAgents looks at: deacon and mayor, and the witness and
\* refinery of every rig when the rigs config loads.
StaleCandidates(rigsOk) ==
    {DeaconBeadID, MayorBeadID}
    \cup (IF rigsOk
          THEN {WitnessBeadID(r) : r \in SweepRigs} \cup {RefineryBeadID(r) : r \in SweepRigs}
          ELSE {})

\* The position of the last "-" of an id, 0 when there is none.
LastDash(s) ==
    LET at == {i \in 1..Len(s) : s[i] = "-"}
    IN  IF at = {} THEN 0 ELSE CHOOSE i \in at : \A j \in at : j <= i

\* extractRigFromAgentID: what stands between "gt-polecat-" and the last dash.
extractRigFromAgentID(agentID) ==
    IF ~HasPrefix(agentID, PolecatPrefix) THEN <<>>
    ELSE LET rest == SubSeq(agentID, Len(PolecatPrefix) + 1, Len(agentID))
         IN  IF LastDash(rest) = 0 THEN <<>> ELSE SubSeq(rest, 1, LastDash(rest) - 1)

\* A mail to a rig's witness.
WitnessAddr(rigName) == rigName \o <<"/", "witness">>
Notification(kind, rigName, agentID, hookBead) ==
    [kind |-> kind, to |-> WitnessAddr(rigName), agent |-> agentID, hook |-> hookBead]

\* What the last sweep did: the beads before and after, the mails it sent, and
\* whether all its calls of bd, gt and the config loader succeeded.
Swept(sweep, before, after, sent, rigsOk, clean) ==
    [sweep |-> sweep, before |-> before, after |-> after, sent |-> sent,
     rigsOk |-> rigsOk, clean |-> clean]

\* No sweep has run.
SweepQuiet ==
    /\ agents = [a \in AgentIds |-> IdleRecord]
    /\ sweeps = 0
    /\ swept = Swept("none", agents, agents, {}, TRUE, TRUE)

\* ------------------------------------------------------ session names: values

\* A string is a sequence of tokens: "-" is the hyphen, every other token is a
\* non-empty run of characters without a hyphen, and putting two such tokens
\* side by side gives a run that is none of the tokens.
Hyphen == "-"

\* Prefix = "gt-"
Prefix == <<"gt", Hyphen>>

RoleMayor == "mayor"
RoleDeacon == "deacon"
RoleWitness == "witness"
RoleRefinery == "refinery"
RoleCrew == "crew"
RolePolecat == "polecat"
Roles == {RoleMayor, RoleDeacon, RoleWitness, RoleRefinery, RoleCrew, RolePolecat}

AgentIdentity(role, town, rig, name) ==
    [Role |-> role, Town |-> town, Rig |-> rig, Name |-> name]

\* strings.Split(s, "-")
RECURSIVE Split(_)
Split(s) ==
    IF ~Contains(s, <<Hyphen>>) THEN <<s>>
    ELSE LET i == FirstOccurrence(s, <<Hyphen>>)
         IN  <<SubSeq(s, 1, i - 1)>> \o Split(SubSeq(s, i + 1, Len(s)))

\* strings.Join(parts, "-")
RECURSIVE Join(_)
Join(parts) ==
    IF Len(parts) = 0 THEN <<>>
    ELSE IF Len(parts) = 1 THEN parts[1]
    ELSE parts[1] \o <<Hyphen>> \o Join(Tail(parts))

WitnessSessionName(rig) == Prefix \o rig \o <<Hyphen, "witness">>
RefinerySessionName(rig) == Prefix \o rig \o <<Hyphen, "refinery">>

\* Mutant: the crew marker is left out of the name.
CrewSessionNameUnmarked(rig, name) == Prefix \o rig \o <<Hyphen>> \o name

CrewSessionName(rig, name) == Prefix \o rig \o <<Hyphen, "crew", Hyphen>> \o name
PolecatSessionName(rig, name) == Prefix \o rig \o <<Hyphen>> \o name

\* AgentIdentity.SessionName
SessionName(a) ==
    CASE a.Role = RoleMayor -> MayorSessionName(a.Town)
      [] a.Role = RoleDeacon -> DeaconSessionName(a.Town)
      [] a.Role = RoleWitness -> WitnessSessionName(a.Rig)
      [] a.Role = RoleRefinery -> RefinerySessionName(a.Rig)
      [] a.Role = RoleCrew -> CrewSessionName(a.Rig, a.Name)
      [] a.Role = RolePolecat -> PolecatSessionName(a.Rig, a.Name)
      [] OTHER -> <<>>

\* The result of ParseSessionName: an identity, or an error.
ParsedIdentity(identity) == [ok |-> TRUE, identity |-> identity]
ParseError == [ok |-> FALSE, identity |-> AgentIdentity("", <<>>, <<>>, <<>>)]

\* The positions of ParseSessionName's crew marker: a part "crew" that is
\* neither the first nor the last.
CrewMarkers(parts) == {i \in 2..(Len(parts) - 1) : parts[i] = <<"crew">>}

ParseSessionName(sess) ==
    IF ~HasPrefix(sess, Prefix) THEN ParseError
    ELSE LET suffix == SubSeq(sess, Len(Prefix) + 1, Len(sess))
             parts == Split(suffix)
             n == Len(parts)
             front == Join(SubSeq(parts, 1, n - 1))
         IN  IF suffix = <<>> THEN ParseError
             ELSE IF n < 2 THEN ParseError
             ELSE IF parts[n] = <<"mayor">>
                  THEN ParsedIdentity(AgentIdentity(RoleMayor, front, <<>>, <<>>))
             ELSE IF parts[n] = <<"deacon">>
                  THEN ParsedIdentity(AgentIdentity(RoleDeacon, front, <<>>, <<>>))
             ELSE IF parts[n] = <<"witness">>
                  THEN ParsedIdentity(AgentIdentity(RoleWitness, <<>>, front, <<>>))
             ELSE IF parts[n] = <<"refinery">>
                  THEN ParsedIdentity(AgentIdentity(RoleRefinery, <<>>, front, <<>>))
             ELSE IF CrewMarkers(parts) # {}
                  THEN LET i == CHOOSE k \in CrewMarkers(parts) :
                                    \A j \in CrewMarkers(parts) : k <= j
                       IN  ParsedIdentity(AgentIdentity(RoleCrew, <<>>,
                                                Join(SubSeq(parts, 1, i - 1)),
                                                Join(SubSeq(parts, i + 1, n))))
             ELSE ParsedIdentity(AgentIdentity(RolePolecat, <<>>, front, parts[n]))

\* The words names are made of: plain words and the role words.
NameWords == {<<"ai">>, <<"max">>} \cup {<<r>> : r \in Roles}

\* Non-empty names of up to MaxNameParts words joined by hyphens.
SeqsUpTo(S, n) == UNION {[1..k -> S] : k \in 1..n}
AgentNames == {Join(w) : w \in SeqsUpTo(NameWords, MaxNameParts)}

\* The identities of every role, with the fields the role has.
AgentIdentities ==
    {AgentIdentity(r, t, <<>>, <<>>) : r \in {RoleMayor, RoleDeacon}, t \in AgentNames}
    \cup {AgentIdentity(r, <<>>, g, <<>>) : r \in {RoleWitness, RoleRefinery},
                                            g \in AgentNames}
    \cup {AgentIdentity(r, <<>>, g, m) : r \in {RoleCrew, RolePolecat},
                                         g \in AgentNames, m \in AgentNames}

\* Session names: a start, then up to MaxSegments segments joined by hyphens; a
\* segment is empty, a word, or a longer run that holds a word.
Segments == {<<>>, <<"ai">>, <<"mayor">>, <<"deacon">>, <<"witness">>, <<"refinery">>,
             <<"crew">>, <<"crew", "s">>}
SessionStarts == {<<>>, <<"gt">>, Prefix, <<"gt", "s", Hyphen>>, <<Hyphen>>}
SessionStrings ==
    {p \o q : p \in SessionStarts,
              q \in {<<>>} \cup {Join(w) : w \in SeqsUpTo(Segments, MaxSegments)}}

\* Nothing given, named or parsed yet.
Unset == [ok |-> FALSE, unset |-> TRUE]
NoName == [set |-> FALSE, name |-> <<>>]
Named(s) == [set |-> TRUE, name |-> s]
GivenNothing == [kind |-> "none"]

\* AgentIdentity.Address
Address(a) ==
    CASE a.Role = RoleMayor -> <<"mayor">>
      [] a.Role = RoleDeacon -> <<"deacon">>
      [] a.Role = RoleWitness -> a.Rig \o <<"/", "witness">>
      [] a.Role = RoleRefinery -> a.Rig \o <<"/", "refinery">>
      [] a.Role = RoleCrew -> a.Rig \o <<"/", "crew", "/">> \o a.Name
      [] a.Role = RolePolecat -> a.Rig \o <<"/", "polecats", "/">> \o a.Name
      [] OTHER -> <<>>

\* The forms of its address an agent's mail comes from: the address, and for
\* the town-level roles also the address with a trailing slash.
FromForms(a) ==
    {Address(a)} \cup (IF a.Role \in {RoleMayor, RoleDeacon} THEN {Address(a) \o <<"/">>}
                       ELSE {})

\* What executeLifecycleAction resolves a request's From to.
Resolved(from) ==
    [set |-> TRUE, From |-> from, session |-> identityToSession(from),
     stateFile |-> identityToStateFile(from)]
Unresolved == [set |-> FALSE, From |-> <<>>, session |-> <<>>, stateFile |-> <<>>]

\* No name is being converted.
IdentQuiet ==
    /\ given = GivenNothing
    /\ session = NoName
    /\ parseResult = Unset
    /\ rebuilt = NoName
    /\ resolved = Unresolved

\* ---------------------------------------------- persisted agent state: values

\* A *time.Time of an AgentState: nil, or a moment in seconds.
NilTime == [set |-> FALSE, t |-> 0]

AgentState(sess, patrol, scheduled, exited, reason) ==
    [Session |-> sess, LastPatrolCompleted |-> patrol, RespawnScheduledAt |-> scheduled,
     LastExitedAt |-> exited, ExitReason |-> reason]

\* &AgentState{}
NewAgentState == AgentState(<<>>, NilTime, NilTime, NilTime, "")

\* State{}: no agent has an entry.
NoAgents == [a \in {} |-> NewAgentState]

\* The agent identifiers, session names, roles and exit reasons of the calls.
StateAgentIDs == {"deacon", "gastown/witness"}
StateSessions == {<<"gt", "-", "deacon">>, <<"gt", "-", "deacon", "-", "new">>}
StateRoles == {"deacon", "witness", "refinery", "unknown-role"}
ExitReasons == {"crash", ""}

\* Mutant: the entry is made anew on every call.
GetAgentStateAlwaysNew(s, agentID) ==
    [a \in DOMAIN s \cup {agentID} |-> IF a = agentID THEN NewAgentState ELSE s[a]]

\* State.GetAgentState: the map with an entry for agentID, made if there was none.
GetAgentState(s, agentID) ==
    IF agentID \in DOMAIN s THEN s ELSE s @@ (agentID :> NewAgentState)

\* Mutant: the respawn is scheduled for the moment of the exit.
RespawnAtExit(at, cfg) == at

\* now.Add(cfg.Delay)
RespawnAt(at, cfg) == at + cfg.Delay

\* State.ScheduleRespawn when time.Now() is at.
ScheduleRespawn(s, agentID, sess, role, exitReason, at) ==
    LET cfg == GetRespawnConfig(role)
    IN  [GetAgentState(s, agentID) EXCEPT
            ![agentID] = [@ EXCEPT !.Session = sess,
                                   !.ExitReason = exitReason,
                                   !.LastExitedAt = At(at),
                                   !.RespawnScheduledAt = At(RespawnAt(at, cfg))]]

\* Mutant: the exit reason is kept.
ClearedRespawnKeepsReason(agent, sess) ==
    [agent EXCEPT !.Session = sess, !.RespawnScheduledAt = NilTime,
                  !.LastExitedAt = NilTime]

\* The entry ClearRespawn leaves.
ClearedRespawn(agent, sess) ==
    [agent EXCEPT !.Session = sess, !.RespawnScheduledAt = NilTime,
                  !.LastExitedAt = NilTime, !.ExitReason = ""]

\* State.ClearRespawn
ClearRespawn(s, agentID, sess) ==
    [GetAgentState(s, agentID) EXCEPT ![agentID] = ClearedRespawn(@, sess)]

\* State.UpdatePatrolCompleted when time.Now() is at.
UpdatePatrolCompleted(s, agentID, at) ==
    [GetAgentState(s, agentID) EXCEPT ![agentID] = [@ EXCEPT !.LastPatrolCompleted = At(at)]]

\* A call on the State: what was called with which arguments, when, on which map.
StateCall(op, agentID, sess, role, reason, at, before) ==
    [op |-> op, agentID |-> agentID, session |-> sess, role |-> role, reason |-> reason,
     now |-> at, before |-> before]
NoStateCall == StateCall("none", "", <<>>, "", "", 0, NoAgents)

\* A State nothing was called on.
StateQuiet ==
    /\ stateAgents = NoAgents
    /\ stateClock = 0
    /\ stateCalls = 0
    /\ stateCall = NoStateCall

\* ------------------------------------------------ lifecycle hygiene: values

\* The rig directories under the town root and the crew directories of a rig.
RigDirs == {<<"rig">>}
CrewDirs == {<<"max">>}

staleMessage(msg) == [ID |-> msg.id, Subject |-> msg.subject, From |-> msg.from]
stuckState(path, identity, flag) == [stateFile |-> path, identity |-> identity, flag |-> flag]
stateFileInfo(path, identity) == [path |-> path, identity |-> identity]

\* os.Stat(path) succeeds.
Exists(path) == path \in DOMAIN files /\ files[path].kind # "absent"

\* findStateFiles: the state.json files of the mayor and of each rig's
\* witness, refinery and crew workers that exist.
findStateFiles ==
    LET mayor == {stateFileInfo(PathJoin(<<TownRoot, <<"mayor">>, <<"state.json">>>>),
                                <<"mayor">>)}
        witnesses == {stateFileInfo(PathJoin(<<TownRoot, rig, <<"witness">>, <<"state.json">>>>),
                                    rig \o <<"-", "witness">>) : rig \in RigDirs}
        refineries == {stateFileInfo(PathJoin(<<TownRoot, rig, <<"refinery">>, <<"state.json">>>>),
                                     rig \o <<"-", "refinery">>) : rig \in RigDirs}
        crews == {stateFileInfo(PathJoin(<<TownRoot, rc[1], <<"crew">>, rc[2], <<"state.json">>>>),
                                rc[1] \o <<"-", "crew", "-">> \o rc[2]) :
                     rc \in RigDirs \X CrewDirs}
    IN  {sf \in mayor \cup witnesses \cup refineries \cup crews : Exists(sf.path)}

\* identityToSessionName of the doctor: <<>> is the empty string.
identityToSessionName(identity) ==
    IF identity = <<"mayor">>
    THEN LET town == GetTownName(TownRoot)
         IN  IF town.err THEN <<>> ELSE MayorSessionName(town.name)
    ELSE IF \/ HasSuffix(identity, <<"-", "witness">>)
            \/ HasSuffix(identity, <<"-", "refinery">>)
            \/ Contains(identity, <<"-", "crew", "-">>)
        THEN <<"gt", "-">> \o identity
    ELSE <<>>

\* isSessionHealthy: `tmux has-session` finds the session of the identity.
isSessionHealthy(identity) ==
    LET name == identityToSessionName(identity)
    IN  name # <<>> /\ name \in sessions

\* The keys of a state file that begin with "requesting_".
RequestingKeys == StateKeys \ {"role"}

\* checkDeaconInbox: what `gt mail inbox --identity deacon/ --json` lists with
\* a subject that begins with "lifecycle:"; nothing when the command fails.
checkDeaconInbox(ok) ==
    IF ~ok THEN {}
    ELSE {staleMessage(inbox[i]) :
             i \in {j \in 1..Len(inbox) :
                       HasPrefix(ToLower(inbox[j].subject), <<"lifecycle", ":">>)}}

\* checkStateFiles: the requesting_* keys that are the boolean true in a state
\* file whose agent has a session.
checkStateFiles ==
    {stuckState(fk[1].path, fk[1].identity, fk[2]) :
        fk \in {x \in findStateFiles \X RequestingKeys :
                   /\ files[x[1].path].kind = "json"
                   /\ files[x[1].path].obj[x[2]] = "true"
                   /\ isSessionHealthy(x[1].identity)}}

\* clearRequestingFlag on the file system fs: the flag and requesting_time are
\* removed; a file that cannot be read or parsed is left as it is.
clearRequestingFlag(fs, stuck) ==
    IF fs[stuck.stateFile].kind # "json" THEN fs
    ELSE [fs EXCEPT ![stuck.stateFile] =
                JsonFile([@.obj EXCEPT ![stuck.flag] = "missing",
                                       !["requesting_time"] = "missing"])]

\* The loop of Fix over the stuck flags.
RECURSIVE ClearFlags(_, _)
ClearFlags(fs, stuck) ==
    IF stuck = {} THEN fs
    ELSE LET one == CHOOSE x \in stuck : TRUE
         IN  ClearFlags(clearRequestingFlag(fs, one), stuck \ {one})

\* The loop of Fix over the stale messages.
RECURSIVE DeleteMessages(_, _)
DeleteMessages(box, ids) ==
    IF ids = {} THEN box
    ELSE LET one == CHOOSE x \in ids : TRUE
         IN  DeleteMessages(WithoutId(box, one), ids \ {one})

\* The requests in the inbox the daemon would execute and has not taken up:
\* unread, not stale.
FreshRequests ==
    {inbox[i] : i \in {j \in 1..Len(inbox) :
                          /\ ~inbox[j].read
                          /\ parseLifecycleRequest(inbox[j]).ok
                          /\ ~IsStale(inbox[j], now)
                          /\ inbox[j].id \notin takenUp}}
\* The flags the daemon will verify: those of the fresh requests and of the
\* request it has taken up and not yet verified.
FlagOf(req) == [stateFile |-> identityToStateFile(req.From), flag |-> RequestingKey(req.Action)]
PendingFlags ==
    {FlagOf(parseLifecycleRequest(m)) : m \in FreshRequests}
    \cup (IF pc \in {"claim", "verify"} THEN {FlagOf(request)} ELSE {})

NoHygiene ==
    [ran |-> FALSE, fixed |-> FALSE, fresh |-> {}, pending |-> {},
     deleted |-> {}, cleared |-> {}]

\* No doctor has run.
DoctorQuiet ==
    /\ staleMessages = {}
    /\ stuckStateFiles = {}
    /\ doctorPc = "idle"
    /\ takenUp = {}
    /\ hygiene = NoHygiene

\* The later groups at rest.
RaceQuiet == obsPc = "idle" /\ obsIDs = <<>>
StuckQuiet == kills = [r \in PatrolRoles |-> 0]
LateQuiet == StateQuiet /\ DoctorQuiet /\ StuckQuiet
RestQuiet == RunQuiet /\ RaceQuiet /\ SweepQuiet /\ IdentQuiet /\ LateQuiet
OffWatchQuiet ==
    LifecycleQuiet /\ PatrolQuiet /\ RaceQuiet /\ SweepQuiet /\ IdentQuiet /\ LateQuiet
OffRaceQuiet ==
    LifecycleQuiet /\ PatrolQuiet /\ RunQuiet /\ SweepQuiet /\ IdentQuiet /\ LateQuiet
OffSweepQuiet ==
    /\ LifecycleQuiet /\ PatrolQuiet /\ ConvoyQuiet /\ RunQuiet /\ RaceQuiet
    /\ IdentQuiet /\ LateQuiet
OffIdentQuiet ==
    /\ LifecycleQuiet /\ PatrolQuiet /\ ConvoyQuiet /\ RunQuiet /\ RaceQuiet
    /\ SweepQuiet /\ LateQuiet
OffStateQuiet ==
    /\ LifecycleQuiet /\ PatrolQuiet /\ ConvoyQuiet /\ RunQuiet /\ RaceQuiet
    /\ SweepQuiet /\ IdentQuiet /\ DoctorQuiet /\ StuckQuiet
OffHygieneQuiet ==
    /\ PatrolQuiet /\ ConvoyQuiet /\ RunQuiet /\ RaceQuiet /\ SweepQuiet /\ IdentQuiet
    /\ StateQuiet /\ StuckQuiet
OffStuckQuiet ==
    /\ LifecycleQuiet /\ ConvoyQuiet /\ RunQuiet /\ RaceQuiet /\ SweepQuiet /\ IdentQuiet
    /\ StateQuiet /\ DoctorQuiet

Init == LifecycleQuiet /\ PatrolQuiet /\ ConvoyQuiet /\ RestQuiet

\* ------------------------------------------------------------ environment

LifecycleSubject == <<"LIFECYCLE", ":", " ", "request">>
Mail(from, subject, body, ts, read) ==
    [from |-> from, subject |-> subject, body |-> body, ts |-> ts, read |-> read]

\* A timestamp: an RFC3339 time (in hours) or text time.Parse rejects.
TimeAt(t) == [valid |-> TRUE, t |-> t]
BadTime == [valid |-> FALSE, t |-> 0]

\* The timestamps requests carry when they reach the inbox: fresh, six hours
\* old (stale an hour later), or not RFC3339.
Timestamps(clock) == {TimeAt(clock), TimeAt(clock - 6), BadTime}

\* The mail that reaches the inbox at a given time: the crew worker's
\* requests for each action, a message of its that is no request, and a
\* request from the address the daemon cannot resolve.
CoreMail(clock) ==
    {Mail(CrewId, LifecycleSubject, JsonBody(a), ts, FALSE) :
        a \in LifecycleActions, ts \in Timestamps(clock)}
    \cup {Mail(CrewId, <<"hello">>, JsonBody("restart"), TimeAt(clock), FALSE),
          Mail(SlashId, LifecycleSubject, JsonBody("cycle"), TimeAt(clock), FALSE)}

\* `gt mail send deacon/ ...` by anyone: a message joins the inbox.
SendMail(mail) ==
    /\ pc = "idle"
    /\ nextId <= MaxMsgs
    /\ \E m \in mail :
          inbox' = Append(inbox, [id |-> nextId, from |-> m.from, subject |-> m.subject,
                                  body |-> m.body, ts |-> m.ts, read |-> m.read])
    /\ nextId' = nextId + 1
    /\ UNCHANGED <<files, sessions, now, pc, messages, idx, request, ticks, log, seen, actionRuns>>

\* An agent (or an operator) rewrites or removes an agent's state.json.
WriteStateFile ==
    /\ pc = "idle"
    /\ \E path \in StatePaths, content \in FileContents :
          /\ files[path] # content
          /\ files' = [files EXCEPT ![path] = content]
    /\ UNCHANGED <<inbox, nextId, sessions, now, pc, messages, idx, request,
                   ticks, log, seen, actionRuns>>

\* A session ends by itself (the agent exits or crashes).
SessionExit ==
    /\ pc = "idle"
    /\ \E s \in sessions : sessions' = sessions \ {s}
    /\ UNCHANGED <<inbox, nextId, files, now, pc, messages, idx, request,
                   ticks, log, seen, actionRuns>>

\* Someone other than the lifecycle processor starts an agent's session.
SessionStart ==
    /\ pc = "idle"
    /\ \E s \in SessionNames \ sessions : sessions' = sessions \cup {s}
    /\ UNCHANGED <<inbox, nextId, files, now, pc, messages, idx, request,
                   ticks, log, seen, actionRuns>>

\* An hour passes.
AdvanceClock ==
    /\ pc = "idle"
    /\ now < MaxClock
    /\ now' = now + 1
    /\ UNCHANGED <<inbox, nextId, files, sessions, pc, messages, idx, request,
                   ticks, log, seen, actionRuns>>

\* The daemon process dies in the middle of a call and is started again.
Crash ==
    /\ pc \notin {"idle", "returned"}
    /\ pc' = "idle"
    /\ messages' = <<>>
    /\ idx' = 0
    /\ request' = NoRequest
    /\ log' = <<>>
    /\ seen' = NotRead
    /\ UNCHANGED <<inbox, nextId, files, sessions, now, ticks, actionRuns>>

\* -------------------------------------------- ProcessLifecycleRequests

\* The call has returned (it ran to the end of its loop, or had nothing to do).
Returned == pc = "returned"

\* Mutant: a request that is not stale is executed without being claimed.
FirstStepExecute(stale) == IF stale THEN "closeStale" ELSE "verify"

\* The first step for a recognised request: a stale one is only deleted, any
\* other is deleted ("claimed") before it is executed.
FirstStep(stale) == IF stale THEN "closeStale" ELSE "claim"

\* Mutant: an error ends the call (`return` for `continue`).
AfterActionReturn(success) == IF success THEN "loop" ELSE "returned"

\* After executeLifecycleAction: the loop goes on to the next message, also
\* after an error (logged, `continue`).
AfterAction(success) == "loop"

\* After the session probe: kill a running session; without one, shutdown has
\* nothing to do and cycle/restart go on to create the session.
AfterProbe(action, running) ==
    IF running THEN "kill"
    ELSE IF action = ActionShutdown THEN "return"
    ELSE "restart"

\* Mutant: shutdown falls through to the restart.
AfterKillRestart(action) == "restart"

\* After a successful kill: shutdown is done, cycle/restart create the session.
AfterKill(action) == IF action = ActionShutdown THEN "return" ELSE "restart"

\* executeLifecycleAction returns: its last events are logged and the loop
\* moves on.
Done(events, success) ==
    /\ log' = log \o events \o <<Ev(request.id, "return", success)>>
    /\ idx' = idx + 1
    /\ pc' = AfterAction(success)
    /\ request' = NoRequest

\* This run of executeLifecycleAction has issued no session operation yet.
NoSessionOpYet ==
    \A i \in 1..Len(log) : ~(log[i].id = request.id /\ log[i].op \in {"kill", "create"})
CountRun ==
    actionRuns' = IF NoSessionOpYet THEN [actionRuns EXCEPT ![request.id] = @ + 1]
                  ELSE actionRuns

\* A heartbeat calls ProcessLifecycleRequests: `gt mail inbox --json`.  The
\* call returns at once when the command fails, prints nothing or prints
\* something that does not decode.
StartTick ==
    /\ pc = "idle"
    /\ ticks < MaxTicks
    /\ ticks' = ticks + 1
    /\ log' = <<>>
    /\ seen' = NotRead
    /\ request' = NoRequest
    /\ \E ok \in BOOLEAN :
          IF ok /\ inbox # <<>>
          THEN messages' = inbox /\ idx' = 1 /\ pc' = "loop"
          ELSE messages' = <<>> /\ idx' = 0 /\ pc' = "returned"
    /\ UNCHANGED <<inbox, nextId, files, sessions, now, actionRuns>>

\* The head of the loop: skip read messages and messages that carry no
\* request, return at the end of the snapshot, otherwise take up the request.
NextMessage ==
    /\ pc = "loop"
    /\ IF idx > Len(messages)
       THEN pc' = "returned" /\ UNCHANGED <<idx, request, log, seen>>
       ELSE LET msg == messages[idx]
                req == parseLifecycleRequest(msg)
            IN  IF msg.read \/ ~req.ok
                THEN idx' = idx + 1 /\ UNCHANGED <<pc, request, log, seen>>
                ELSE /\ request' = req
                     /\ log' = Append(log, Begin(req))
                     /\ seen' = NotRead
                     /\ pc' = FirstStep(IsStale(msg, now))
                     /\ UNCHANGED idx
    /\ UNCHANGED <<inbox, nextId, files, sessions, now, messages, ticks,
                   actionRuns>>

\* The call is over: the daemon goes back to waiting for the next heartbeat.
Return ==
    /\ pc = "returned"
    /\ pc' = "idle"
    /\ messages' = <<>>
    /\ idx' = 0
    /\ log' = <<>>
    /\ seen' = NotRead
    /\ UNCHANGED <<inbox, nextId, files, sessions, now, request, ticks,
                   actionRuns>>

\* A stale request: delete the message and go on; a failed delete is logged.
CloseStale ==
    /\ pc = "closeStale"
    /\ \E ok \in BOOLEAN : closeMessage(request.id, ok)
    /\ idx' = idx + 1
    /\ pc' = "loop"
    /\ request' = NoRequest
    /\ UNCHANGED <<nextId, files, sessions, now, messages, ticks, seen,
                   actionRuns>>

\* Claim: delete the message before executing; a failed delete is logged and
\* the action is executed anyway.
Claim ==
    /\ pc = "claim"
    /\ \E ok \in BOOLEAN : closeMessage(request.id, ok)
    /\ pc' = "verify"
    /\ UNCHANGED <<nextId, files, sessions, now, messages, idx, request, ticks, seen, actionRuns>>

\* executeLifecycleAction up to the state verification.
Verify ==
    /\ pc = "verify"
    /\ IF sessionName = <<>>
       THEN Done(<<Ev(request.id, "identity", FALSE)>>, FALSE) /\ UNCHANGED seen
       ELSE LET read == IF stateFile = <<>> THEN NotRead ELSE files[stateFile]
                what == Observed(read, request.Action)
            IN  /\ seen' = read
                /\ IF verifyAgentRequestingState(request.From, request.Action) # ""
                   THEN Done(<<Event(request.id, "verify", FALSE, 0, what)>>, FALSE)
                   ELSE /\ log' = Append(log, Event(request.id, "verify", TRUE, 0, what))
                        /\ pc' = "probe"
                        /\ UNCHANGED <<idx, request>>
    /\ UNCHANGED <<inbox, nextId, files, sessions, now, messages, ticks,
                   actionRuns>>

\* d.tmux.HasSession and the switch on the action.
Probe ==
    /\ pc = "probe"
    /\ \E ok \in BOOLEAN :
          IF ~ok THEN Done(<<Ev(request.id, "probe", FALSE)>>, FALSE)
          ELSE LET running == sessionName \in sessions
                   next == AfterProbe(request.Action, running)
                   found == Event(request.id, "probe", TRUE, 0,
                                  IF running THEN "running" ELSE "absent")
               IN  IF next = "return"
                   THEN Done(<<found>>, TRUE)
                   ELSE /\ log' = Append(log, found)
                        /\ pc' = next
                        /\ UNCHANGED <<idx, request>>
    /\ UNCHANGED <<inbox, nextId, files, sessions, now, messages, ticks,
                   seen, actionRuns>>

\* d.tmux.KillSession; it fails when the session is gone.
Kill ==
    /\ pc = "kill"
    /\ CountRun
    /\ \E ok \in BOOLEAN :
          /\ ok => sessionName \in sessions
          /\ sessions' = IF ok THEN sessions \ {sessionName} ELSE sessions
          /\ IF ~ok THEN Done(<<Ev(request.id, "kill", FALSE)>>, FALSE)
             ELSE IF AfterKill(request.Action) = "return"
             THEN Done(<<Ev(request.id, "kill", TRUE)>>, TRUE)
             ELSE /\ log' = Append(log, Ev(request.id, "kill", TRUE))
                  /\ pc' = AfterKill(request.Action)
                  /\ UNCHANGED <<idx, request>>
    /\ UNCHANGED <<inbox, nextId, files, now, messages, ticks, seen>>

\* restartSession: EnsureSessionFresh creates the session, SendKeys starts
\* the agent in it; either can fail.
Restart ==
    /\ pc = "restart"
    /\ CountRun
    /\ \E outcome \in {"createFailed", "sendKeysFailed", "ok"} :
          /\ sessions' = IF outcome = "createFailed" THEN sessions
                         ELSE sessions \cup {sessionName}
          /\ CASE outcome = "createFailed" ->
                    Done(<<Ev(request.id, "create", FALSE)>>, FALSE)
               [] outcome = "sendKeysFailed" ->
                    Done(<<Ev(request.id, "create", TRUE),
                           Ev(request.id, "sendkeys", FALSE)>>, FALSE)
               [] outcome = "ok" ->
                    /\ log' = Append(log, Ev(request.id, "create", TRUE))
                    /\ pc' = "clear"
                    /\ UNCHANGED <<idx, request>>
    /\ UNCHANGED <<inbox, nextId, files, now, messages, ticks, seen>>

\* clearAgentRequestingState, whose error is only logged: the action succeeds.
Clear ==
    /\ pc = "clear"
    /\ \E io \in {"readFailed", "writeFailed", "ok"} :
          LET err == clearAgentRequestingState(request.From, request.Action, io)
          IN  /\ files' = IF err = ""
                          THEN [files EXCEPT ![stateFile] = ClearedState(@, request.Action)]
                          ELSE files
              /\ Done(<<Ev(request.id, "clear", err = "")>>, TRUE)
    /\ UNCHANGED <<inbox, nextId, sessions, now, messages, ticks, seen,
                   actionRuns>>

Next ==
    \/ SendMail(CoreMail(now)) /\ UNCHANGED <<patrolVars, convoyVars, restVars>>
    \/ WriteStateFile /\ UNCHANGED <<patrolVars, convoyVars, restVars>>
    \/ SessionExit /\ UNCHANGED <<patrolVars, convoyVars, restVars>>
    \/ SessionStart /\ UNCHANGED <<patrolVars, convoyVars, restVars>>
    \/ AdvanceClock /\ UNCHANGED <<patrolVars, convoyVars, restVars>>
    \/ Crash /\ UNCHANGED <<patrolVars, convoyVars, restVars>>
    \/ StartTick /\ UNCHANGED <<patrolVars, convoyVars, restVars>>
    \/ NextMessage /\ UNCHANGED <<patrolVars, convoyVars, restVars>>
    \/ Return /\ UNCHANGED <<patrolVars, convoyVars, restVars>>
    \/ CloseStale /\ UNCHANGED <<patrolVars, convoyVars, restVars>>
    \/ Claim /\ UNCHANGED <<patrolVars, convoyVars, restVars>>
    \/ Verify /\ UNCHANGED <<patrolVars, convoyVars, restVars>>
    \/ Probe /\ UNCHANGED <<patrolVars, convoyVars, restVars>>
    \/ Kill /\ UNCHANGED <<patrolVars, convoyVars, restVars>>
    \/ Restart /\ UNCHANGED <<patrolVars, convoyVars, restVars>>
    \/ Clear /\ UNCHANGED <<patrolVars, convoyVars, restVars>>

Spec == Init /\ [][Next]_vars

\* ------------------------------------------- the message gate in detail

\* Mail of every shape the gate tells apart, sent by the crew worker: requests
\* in structured and in plain-text form, with the marker and the action in
\* other cases, and messages that are no request.
AllMail(clock) ==
    LET Fresh(subject, body) == Mail(CrewId, subject, body, TimeAt(clock), FALSE)
    IN  {Fresh(LifecycleSubject, JsonBody("cycle")),
         Fresh(<<"lifecycle", ":", "x">>, JsonBody("STOP")),
         Fresh(<<"Lifecycle", ":", " ", "request">>, TextBody(<<" ", "Restart", " ">>)),
         Fresh(LifecycleSubject, TextBody(<<"action", ":", " ", "cycle">>)),
         Fresh(LifecycleSubject, TextBody(<<"please", " ", "restart">>)),
         Fresh(LifecycleSubject, TextBody(<<"action", ":", " ", "stop">>)),
         Fresh(LifecycleSubject, JsonBody("")),
         Fresh(LifecycleSubject, JsonBody("reboot")),
         Fresh(<<"hello">>, JsonBody("restart")),
         Fresh(<<"Re", ":", " ", "LIFECYCLE", ":", " ", "request">>, JsonBody("restart")),
         Mail(CrewId, LifecycleSubject, JsonBody("cycle"), TimeAt(clock), TRUE),
         Mail(CrewId, LifecycleSubject, JsonBody("shutdown"), TimeAt(clock - 7), FALSE)}

\* The crew worker has staged a cycle and its session is running.
GateInit ==
    /\ inbox = <<>>
    /\ nextId = 1
    /\ files = [path \in StatePaths |-> Staged(ActionCycle, "true")]
    /\ sessions = SessionNames
    /\ now = 0
    /\ pc = "idle"
    /\ messages = <<>>
    /\ idx = 0
    /\ request = NoRequest
    /\ ticks = 0
    /\ log = <<>>
    /\ seen = NotRead
    /\ actionRuns = [i \in MsgIds |-> 0]
    /\ PatrolQuiet
    /\ ConvoyQuiet
    /\ RestQuiet

GateNext ==
    \/ SendMail(AllMail(now)) /\ UNCHANGED <<patrolVars, convoyVars, restVars>>
    \/ Crash /\ UNCHANGED <<patrolVars, convoyVars, restVars>>
    \/ StartTick /\ UNCHANGED <<patrolVars, convoyVars, restVars>>
    \/ NextMessage /\ UNCHANGED <<patrolVars, convoyVars, restVars>>
    \/ Return /\ UNCHANGED <<patrolVars, convoyVars, restVars>>
    \/ CloseStale /\ UNCHANGED <<patrolVars, convoyVars, restVars>>
    \/ Claim /\ UNCHANGED <<patrolVars, convoyVars, restVars>>
    \/ Verify /\ UNCHANGED <<patrolVars, convoyVars, restVars>>
    \/ Probe /\ UNCHANGED <<patrolVars, convoyVars, restVars>>
    \/ Kill /\ UNCHANGED <<patrolVars, convoyVars, restVars>>
    \/ Restart /\ UNCHANGED <<patrolVars, convoyVars, restVars>>
    \/ Clear /\ UNCHANGED <<patrolVars, convoyVars, restVars>>

GateSpec == GateInit /\ [][GateNext]_vars

\* The heartbeat ticker keeps calling ProcessLifecycleRequests whenever no call
\* is running.  Mail and agent crashes come from outside and are under no such
\* obligation.
GateTick == StartTick /\ UNCHANGED <<patrolVars, convoyVars, restVars>>

GateLiveSpec == GateSpec /\ WF_vars(GateTick)

\* --------------------------------------- the health evaluator, called directly

\* The clock reading of the direct calls, in seconds.
EvalClock == 3600
\* Heartbeat ages around the thresholds (10, 15 and 30 minutes).
HeartbeatAges == {0, 600, 601, 900, 901, 1200, 1800, 1801}
\* Stuck thresholds and respawn delays of the configurations passed in.
StuckThresholds == {600, 900}
RespawnDelays == {0, 30, 300}
\* Recorded deaths: none, or so many seconds before the call.
DeathAges == {0, 10, 29, 30, 300}
LastDeaths(clock) == {ZeroTime} \cup {At(clock - d) : d \in DeathAges}

EvalInit ==
    /\ LifecycleQuiet
    /\ ConvoyQuiet
    /\ RestQuiet
    /\ clockSec = EvalClock
    /\ advances = 0
    /\ alive \in SUBSET PatrolRoles
    /\ \E label \in {ZeroTime} \cup {At(EvalClock - a) : a \in HeartbeatAges} :
          lastActivity = [r \in PatrolRoles |-> label]
    /\ disabled = {}
    /\ patrolPc = "idle"
    /\ patrolTicks = 0
    /\ verdict = [r \in PatrolRoles |-> NoVerdict]
    /\ nudged = {}
    /\ firstDead = [r \in PatrolRoles |-> ZeroTime]
    /\ eval = NoVerdict

\* tmux.HasSession for a role's session.
HasSession(role, probeErr) ==
    IF probeErr THEN "error" ELSE IF role \in alive THEN "alive" ELSE "dead"

\* d.checkAgentHealth(config) for any configuration, once.
CallCheckAgentHealth ==
    /\ ~eval.checked
    /\ \E role \in PatrolRoles, stuck \in StuckThresholds, delay \in RespawnDelays,
          death \in LastDeaths(clockSec), probeErr \in BOOLEAN, bdOk \in BOOLEAN :
          LET config == AgentHealthConfig(role, stuck, delay, death)
              probe == HasSession(role, probeErr)
              lastHeartbeat == getLastPatrolCompleted(lastActivity[role], bdOk)
              result == checkAgentHealth(config, probe, lastHeartbeat, clockSec)
          IN  eval' = Verdict(config, probe, lastHeartbeat, result, "none", TRUE, clockSec)
    /\ UNCHANGED <<lifecycleVars, convoyVars, restVars, clockSec, advances, alive, lastActivity,
                   disabled, patrolPc, patrolTicks, verdict, nudged, firstDead>>

\* d.handleStuckAgent(config, result) on the stuck result of the last call;
\* the kill or the nudge may fail, which is only logged.
CallHandleStuckAgent ==
    /\ eval.checked
    /\ eval.result.Status = StatusStuck
    /\ eval.remediation = "none"
    /\ \E ok \in BOOLEAN :
          LET remediation == Remediation(eval.result)
              role == eval.config.Role
          IN  /\ eval' = [eval EXCEPT !.remediation = remediation, !.ok = ok]
              /\ alive' = IF remediation = "kill" /\ ok THEN alive \ {role} ELSE alive
              /\ nudged' = IF remediation = "nudge" THEN nudged \cup {role} ELSE nudged
    /\ UNCHANGED <<lifecycleVars, convoyVars, restVars, clockSec, advances, lastActivity, disabled,
                   patrolPc, patrolTicks, verdict, firstDead>>

EvalNext ==
    \/ CallCheckAgentHealth
    \/ CallHandleStuckAgent

EvalSpec == EvalInit /\ [][EvalNext]_vars

\* ------------------------------------------------ the per-tick health checks

\* Seconds the clock advances between two looks at it.
ClockSteps == {10, 800, 1000}

HealthInit ==
    /\ LifecycleQuiet
    /\ ConvoyQuiet
    /\ RestQuiet
    /\ clockSec = 0
    /\ advances = 0
    /\ alive \in SUBSET PatrolRoles
    /\ lastActivity = [r \in PatrolRoles |-> ZeroTime]
    /\ disabled \in {{}, {"refinery"}}
    /\ patrolPc = "idle"
    /\ patrolTicks = 0
    /\ verdict = [r \in PatrolRoles |-> NoVerdict]
    /\ nudged = {}
    /\ firstDead = [r \in PatrolRoles |-> ZeroTime]
    /\ eval = NoVerdict

\* Time passes between heartbeat ticks.
TimePasses ==
    /\ patrolPc = "idle"
    /\ advances < MaxAdvances
    /\ \E d \in ClockSteps : clockSec' = clockSec + d
    /\ advances' = advances + 1
    /\ UNCHANGED <<lifecycleVars, convoyVars, restVars, alive, lastActivity, disabled, patrolPc,
                   patrolTicks, verdict, nudged, firstDead, eval>>

\* The roles whose agent bead carries a last_activity label.
Labelled == {r \in PatrolRoles : ~IsZero(lastActivity[r])}

\* gt patrol-done: a running agent records the end of a patrol cycle.
RecordPatrol(role) ==
    /\ patrolPc = "idle"
    /\ role \in alive
    /\ role \in Labelled \/ Cardinality(Labelled) < MaxLabelled
    /\ lastActivity[role] # At(clockSec)
    /\ lastActivity' = [lastActivity EXCEPT ![role] = At(clockSec)]
    /\ UNCHANGED <<clockSec, advances, alive, disabled, patrolPc, patrolTicks, verdict, nudged,
                   firstDead, eval>>
PatrolDone ==
    /\ \E role \in PatrolRoles : RecordPatrol(role)
    /\ UNCHANGED <<lifecycleVars, convoyVars, restVars>>

\* A session crashes or exits.
SessionDies ==
    /\ patrolPc = "idle"
    /\ \E role \in alive : alive' = alive \ {role}
    /\ UNCHANGED <<lifecycleVars, convoyVars, restVars, clockSec, advances, lastActivity, disabled,
                   patrolPc, patrolTicks, verdict, nudged, firstDead, eval>>

\* The heartbeat's ensure-running step (or anyone) starts a fresh session; the
\* agent bead keeps the last_activity label of the previous session.
SessionRespawns ==
    /\ patrolPc = "idle"
    /\ \E role \in PatrolRoles \ alive :
          /\ alive' = alive \cup {role}
          /\ nudged' = nudged \ {role}
          /\ firstDead' = [firstDead EXCEPT ![role] = ZeroTime]
    /\ UNCHANGED <<lifecycleVars, convoyVars, restVars, clockSec, advances, lastActivity, disabled,
                   patrolPc, patrolTicks, verdict, eval>>

\* checkPatrolAgentHealth is entered.
StartPatrolCheck ==
    /\ patrolPc = "idle"
    /\ patrolTicks < MaxPatrolTicks
    /\ patrolTicks' = patrolTicks + 1
    /\ patrolPc' = "deacon"
    /\ verdict' = [r \in PatrolRoles |-> NoVerdict]
    /\ UNCHANGED <<lifecycleVars, convoyVars, restVars, clockSec, advances, alive, lastActivity,
                   disabled, nudged, firstDead, eval>>

\* Mutant: no result is handed to handleStuckAgent.
NeedsRemediationNone(result) == FALSE

\* Mutant: every result is handed to handleStuckAgent.
NeedsRemediationAny(result) == TRUE

\* The switch of the per-role checks: only StatusStuck reaches handleStuckAgent.
NeedsRemediation(result) == result.Status = StatusStuck

\* check<Role>AgentHealth for the one rig: build the configuration, call
\* checkAgentHealth, and on StatusStuck handleStuckAgent.
RoleCheck(role, next) ==
    /\ patrolPc = role
    /\ patrolPc' = next
    /\ IF role \in disabled
       THEN UNCHANGED <<alive, verdict, nudged, firstDead>>
       ELSE \E probeErr \in BOOLEAN, bdOk \in BOOLEAN, ok \in BOOLEAN :
              LET config == AgentHealthConfig(role, DefaultStuckThreshold,
                                              DefaultRespawnDelay, ZeroTime)
                  probe == HasSession(role, probeErr)
                  lastHeartbeat == getLastPatrolCompleted(lastActivity[role], bdOk)
                  result == checkAgentHealth(config, probe, lastHeartbeat, clockSec)
                  remediation == IF NeedsRemediation(result) THEN Remediation(result)
                                 ELSE "none"
              IN  /\ remediation = "none" => ok
                  /\ verdict' = [verdict EXCEPT ![role] =
                                    Verdict(config, probe, lastHeartbeat, result,
                                            remediation, ok, clockSec)]
                  /\ alive' = IF remediation = "kill" /\ ok THEN alive \ {role} ELSE alive
                  /\ nudged' = IF remediation = "nudge" THEN nudged \cup {role} ELSE nudged
                  /\ firstDead' =
                        IF probe = "dead" /\ IsZero(firstDead[role])
                        THEN [firstDead EXCEPT ![role] = At(clockSec)]
                        ELSE IF probe = "alive"
                        THEN [firstDead EXCEPT ![role] = ZeroTime]
                        ELSE firstDead
    /\ UNCHANGED <<clockSec, advances, lastActivity, disabled, patrolTicks, eval>>
CheckRoleAgentHealth(role, next) ==
    RoleCheck(role, next) /\ UNCHANGED <<lifecycleVars, convoyVars, restVars>>

checkDeaconAgentHealth == CheckRoleAgentHealth("deacon", "witness")
checkWitnessAgentHealth == CheckRoleAgentHealth("witness", "refinery")
checkRefineryAgentHealth == CheckRoleAgentHealth("refinery", "idle")

HealthNext ==
    \/ TimePasses
    \/ PatrolDone
    \/ SessionDies
    \/ SessionRespawns
    \/ StartPatrolCheck
    \/ checkDeaconAgentHealth
    \/ checkWitnessAgentHealth
    \/ checkRefineryAgentHealth

HealthSpec == HealthInit /\ [][HealthNext]_vars

\* ---------------------------------- stuck agents over many heartbeats

\* Every patrol agent runs, and one of them has recorded a heartbeat, at time 0.
StuckInit ==
    /\ OffStuckQuiet
    /\ clockSec = 0
    /\ advances = 0
    /\ alive = PatrolRoles
    /\ \E role \in PatrolRoles :
          lastActivity = [r \in PatrolRoles |-> IF r = role THEN At(0) ELSE ZeroTime]
    /\ disabled \in {{}, {"refinery"}}
    /\ patrolPc = "idle"
    /\ patrolTicks = 0
    /\ verdict = [r \in PatrolRoles |-> NoVerdict]
    /\ nudged = {}
    /\ firstDead = [r \in PatrolRoles |-> ZeroTime]
    /\ eval = NoVerdict
    /\ StuckQuiet

\* Time passes between two heartbeats.
Elapse ==
    /\ patrolPc = "idle"
    /\ clockSec + StuckClockStep <= MaxStuckClock
    /\ clockSec' = clockSec + StuckClockStep
    /\ UNCHANGED <<advances, alive, lastActivity, disabled, patrolPc, patrolTicks, verdict,
                   nudged, firstDead, eval, kills, offStuck>>

\* The next heartbeat enters checkPatrolAgentHealth.
Heartbeat ==
    /\ patrolPc = "idle"
    /\ patrolPc' = "deacon"
    /\ verdict' = [r \in PatrolRoles |-> NoVerdict]
    /\ UNCHANGED <<clockSec, advances, alive, lastActivity, disabled, patrolTicks, nudged,
                   firstDead, eval, kills, offStuck>>

\* check<Role>AgentHealth, and the count of the sessions it killed as stuck.
StuckCheck(role, next) ==
    /\ RoleCheck(role, next)
    /\ kills' = IF verdict'[role].remediation = "kill" /\ verdict'[role].ok
                THEN [kills EXCEPT ![role] = IF @ < MaxKills THEN @ + 1 ELSE @]
                ELSE kills
    /\ UNCHANGED offStuck

StuckCheckDeacon == StuckCheck("deacon", "witness")
StuckCheckWitness == StuckCheck("witness", "refinery")
StuckCheckRefinery == StuckCheck("refinery", "idle")

\* gt patrol-done: the agent records a newer heartbeat.
NewHeartbeat ==
    /\ \E role \in PatrolRoles :
          /\ RecordPatrol(role)
          /\ kills' = [kills EXCEPT ![role] = 0]
    /\ UNCHANGED offStuck

StuckNext ==
    \/ Elapse
    \/ Heartbeat
    \/ StuckCheckDeacon
    \/ StuckCheckWitness
    \/ StuckCheckRefinery
    \/ NewHeartbeat
    \/ SessionRespawns

StuckSpec == StuckInit /\ [][StuckNext]_vars

\* The heartbeat ticker keeps firing and a check that was entered runs to its
\* end; time goes by between heartbeats (the clock can move whenever no check
\* is running, and does so while it has room).
StuckLiveSpec ==
    /\ StuckSpec
    /\ SF_vars(Elapse)
    /\ WF_vars(Heartbeat)
    /\ WF_vars(StuckCheckDeacon)
    /\ WF_vars(StuckCheckWitness)
    /\ WF_vars(StuckCheckRefinery)

\* ------------------------------------------------------- the convoy watcher

ConvoyInit ==
    /\ LifecycleQuiet
    /\ PatrolQuiet
    /\ RestQuiet
    /\ issueStatus = [i \in Items |-> "open"]
    /\ convoyStatus = [c \in Convoys |-> "open"]
    /\ deps \in DependencyTables
    /\ feed = <<>>
    /\ delivered = 0
    /\ watchPc = "idle"
    /\ event = NoEvent
    /\ convoyIDs = <<>>
    /\ wlog = <<>>
    /\ observed = NoObservation
    /\ observations = 0

\* Someone closes a work item in the store.
CloseItem ==
    /\ \E i \in Items :
          /\ issueStatus[i] = "open"
          /\ issueStatus' = [issueStatus EXCEPT ![i] = "closed"]
    /\ UNCHANGED <<lifecycleVars, patrolVars, restVars, convoyStatus, deps, feed, delivered,
                   watchPc, event, convoyIDs, wlog, observed, observations>>

\* The lines the feed can deliver: the close of an item that is closed (any
\* number of times), and lines the watcher is not interested in.
FeedLines ==
    {bdActivityEvent("status", i, "closed") : i \in {j \in Items : issueStatus[j] = "closed"}}
    \cup {EmptyLine, MalformedLine,
          bdActivityEvent("status", "gt-x", "in_progress"),
          bdActivityEvent("create", "gt-x", "closed")}

\* bd activity --follow writes a line.
Deliver ==
    /\ delivered < MaxLines
    /\ feed = <<>>
    /\ \E line \in FeedLines : feed' = Append(feed, line)
    /\ delivered' = delivered + 1
    /\ UNCHANGED <<lifecycleVars, patrolVars, restVars, issueStatus, convoyStatus, deps,
                   watchPc, event, convoyIDs, wlog, observed, observations>>

\* processLine up to its loop: skip what is not a close, else ask the store for
\* the tracking convoys.
processLine ==
    /\ watchPc = "idle"
    /\ feed # <<>>
    /\ feed' = Tail(feed)
    /\ wlog' = <<>>
    /\ LET line == Head(feed)
       IN  IF ~IsClose(line)
           THEN /\ event' = LineRead(line, FALSE, TRUE)
                /\ convoyIDs' = <<>>
                /\ watchPc' = "idle"
           ELSE \E queryOk \in BOOLEAN :
                  /\ event' = LineRead(line, TRUE, queryOk)
                  /\ convoyIDs' \in Orderings(getTrackingConvoys(deps, line.IssueID, queryOk))
                  /\ watchPc' = IF convoyIDs' = <<>> THEN "idle" ELSE "checking"
    /\ UNCHANGED <<lifecycleVars, patrolVars, restVars, issueStatus, convoyStatus, deps,
                   delivered, observed, observations>>

\* checkConvoyCompletion for the next tracking convoy: return when the status
\* query fails or the convoy is closed, else run gt convoy check <id>, whose
\* failure is only logged.
checkConvoyCompletion ==
    /\ watchPc = "checking"
    /\ \E queryOk \in BOOLEAN, checkOk \in BOOLEAN :
          LET convoyID == Head(convoyIDs)
              run == queryOk /\ ~AlreadyClosed(convoyStatus[convoyID])
              after == IF run
                       THEN ConvoyCheck({convoyID}, deps, issueStatus, convoyStatus, checkOk)
                       ELSE convoyStatus
          IN  /\ ~run => checkOk
              /\ convoyStatus' = after
              /\ wlog' = Append(wlog, Turn(convoyID, convoyStatus[convoyID], queryOk, run,
                                           checkOk, Complete(deps, issueStatus, convoyID),
                                           convoyStatus, after))
    /\ convoyIDs' = Tail(convoyIDs)
    /\ watchPc' = IF Tail(convoyIDs) = <<>> THEN "idle" ELSE "checking"
    /\ UNCHANGED <<lifecycleVars, patrolVars, restVars, issueStatus, deps, feed, delivered,
                   event, observed, observations>>

\* convoy.CheckConvoysForIssue, called by another observer for a closed item.
CheckConvoysForIssue ==
    /\ observations < MaxObservations
    /\ observations' = observations + 1
    /\ \E issueID \in {i \in Items : issueStatus[i] = "closed"}, queryOk \in BOOLEAN :
          \E ids \in Orderings(getTrackingConvoys(deps, issueID, queryOk)) :
             \E failed \in SUBSET {ids[k] : k \in 1..Len(ids)},
                okChecks \in SUBSET {ids[k] : k \in 1..Len(ids)} :
                LET turns == ObserveConvoys(ids, deps, issueStatus, convoyStatus,
                                            failed, okChecks)
                    after == IF turns = <<>> THEN convoyStatus
                             ELSE turns[Len(turns)].after
                IN  /\ convoyStatus' = after
                    /\ observed' = Observation(issueID, queryOk, turns, convoyStatus, after)
    /\ UNCHANGED <<lifecycleVars, patrolVars, restVars, issueStatus, deps, feed, delivered,
                   watchPc, event, convoyIDs, wlog>>

ConvoyNext ==
    \/ CloseItem
    \/ Deliver
    \/ processLine
    \/ checkConvoyCompletion
    \/ CheckConvoysForIssue

ConvoySpec == ConvoyInit /\ [][ConvoyNext]_vars

\* -------------------------------------------------- the convoy watcher task

\* The store when the watcher starts: gt-x and gt-y are closed, their close
\* events not yet read, so that hq-cv-1 is complete and still open.
WatchInit ==
    /\ OffWatchQuiet
    /\ RunQuiet
    /\ issueStatus = [i \in Items |-> IF i = "gt-z" THEN "open" ELSE "closed"]
    /\ convoyStatus = [c \in Convoys |-> "open"]
    /\ deps = SharedItemTable
    /\ feed = <<>>
    /\ delivered = 0
    /\ watchPc = "idle"
    /\ event = NoEvent
    /\ convoyIDs = <<>>
    /\ wlog = <<>>
    /\ observed = NoObservation
    /\ observations = 0

\* ConvoyWatcher.Start: go w.run().
Start ==
    /\ runPc = "unstarted"
    /\ runPc' = "select"
    /\ UNCHANGED <<offWatch, convoyVars,
                   cancelled, sub, stopPc, attempts, sinceEnd, gap, endedBy, lines,
                   openedCancelled>>

\* ConvoyWatcher.Stop on a started watcher: w.cancel(), then w.wg.Wait().
Stop ==
    /\ runPc # "unstarted"
    /\ stopPc = "idle"
    /\ cancelled' = TRUE
    /\ stopPc' = "waiting"
    /\ UNCHANGED <<offWatch, convoyVars,
                   runPc, sub, attempts, sinceEnd, gap, endedBy, lines,
                   openedCancelled>>

\* w.wg.Wait() returns once run has returned.
StopReturns ==
    /\ stopPc = "waiting"
    /\ runPc = "returned"
    /\ stopPc' = "returned"
    /\ UNCHANGED <<offWatch, convoyVars,
                   runPc, cancelled, sub, attempts, sinceEnd, gap, endedBy, lines,
                   openedCancelled>>

\* exec.CommandContext kills bd activity when the context is cancelled.
ContextKill ==
    /\ cancelled
    /\ sub = "running"
    /\ sub' = "killed"
    /\ UNCHANGED <<offWatch, convoyVars,
                   runPc, cancelled, stopPc, attempts, sinceEnd, gap, endedBy, lines,
                   openedCancelled>>

\* bd activity exits by itself, with status 0 or not, or its pipe breaks.
StreamEnds ==
    /\ sub = "running"
    /\ sub' \in {"exited clean", "exited failed", "read error"}
    /\ UNCHANGED <<offWatch, convoyVars,
                   runPc, cancelled, stopPc, attempts, sinceEnd, gap, endedBy, lines,
                   openedCancelled>>

\* The select at the top of run's loop: return when cancelled, else call
\* watchActivity.
RunSelect ==
    /\ runPc = "select"
    /\ ctxDone(cancelled) \/ attempts < MaxAttempts
    /\ runPc' = IF ctxDone(cancelled) THEN "returned" ELSE "starting"
    /\ UNCHANGED <<offWatch, convoyVars,
                   cancelled, sub, stopPc, attempts, sinceEnd, gap, endedBy, lines,
                   openedCancelled>>

\* watchActivity up to its loop: StdoutPipe and Start, which fail when the
\* context is cancelled already and may fail otherwise.
StartActivity ==
    /\ runPc = "starting"
    /\ attempts' = attempts + 1
    /\ gap' = sinceEnd
    /\ sinceEnd' = 0
    /\ lines' = <<>>
    /\ \E started \in {s \in BOOLEAN : s => ~ctxDone(cancelled)} :
          /\ openedCancelled' = (openedCancelled \/ (started /\ cancelled))
          /\ IF started
             THEN /\ sub' = "running"
                  /\ runPc' = "reading"
                  /\ endedBy' = EndNone
             ELSE /\ sub' = "none"
                  /\ runPc' = AfterWatchActivity(EndStartError)
                  /\ endedBy' = EndStartError
    /\ UNCHANGED <<offWatch, convoyVars,
                   cancelled, stopPc>>

\* The lines bd activity writes in these behaviours.
ActivityLines ==
    {bdActivityEvent("status", "gt-x", "closed"), EmptyLine, MalformedLine,
     bdActivityEvent("status", "gt-x", "in_progress"),
     bdActivityEvent("create", "gt-x", "closed")}

\* scanner.Scan() returns a line: when cancelled, kill the process and return
\* nil; else hand the line to processLine.
ScanLine ==
    /\ runPc = "reading"
    /\ watchPc = "idle"
    /\ feed = <<>>
    /\ sub = "running"
    /\ delivered < MaxLines
    /\ delivered' = delivered + 1
    /\ IF ctxDone(cancelled)
       THEN /\ sub' = "killed"
            /\ endedBy' = EndCancelled
            /\ runPc' = AfterWatchActivity(EndCancelled)
            /\ UNCHANGED <<feed, lines>>
       ELSE /\ \E line \in ActivityLines :
                 /\ feed' = <<line>>
                 /\ lines' = Append(lines, line)
            /\ UNCHANGED <<sub, endedBy, runPc>>
    /\ UNCHANGED <<offWatch, issueStatus,
                   convoyStatus, deps, watchPc, event, convoyIDs, wlog, observed,
                   observations, cancelled, stopPc, attempts, sinceEnd, gap,
                   openedCancelled>>

\* scanner.Scan() returns false: scanner.Err(), else cmd.Wait().
ScanEnd(state) ==
    IF state = "exited clean" THEN EndClean ELSE EndStreamError

ScanFalse ==
    /\ runPc = "reading"
    /\ watchPc = "idle"
    /\ feed = <<>>
    /\ sub \in {"exited clean", "exited failed", "read error", "killed"}
    /\ endedBy' = ScanEnd(sub)
    /\ runPc' = AfterWatchActivity(ScanEnd(sub))
    /\ UNCHANGED <<offWatch, convoyVars,
                   cancelled, sub, stopPc, attempts, sinceEnd, gap, lines,
                   openedCancelled>>

\* The select of run after an error: the context is done.
BackoffCancelled ==
    /\ runPc = "backoff"
    /\ ctxDone(cancelled)
    /\ runPc' = "returned"
    /\ UNCHANGED <<offWatch, convoyVars,
                   cancelled, sub, stopPc, attempts, sinceEnd, gap, endedBy, lines,
                   openedCancelled>>

\* The select of run after an error: time.After(5 * time.Second) fires.
BackoffElapsed ==
    /\ runPc = "backoff"
    /\ runPc' = "select"
    /\ sinceEnd' = RetryBackoff
    /\ UNCHANGED <<offWatch, convoyVars,
                   cancelled, sub, stopPc, attempts, gap, endedBy, lines,
                   openedCancelled>>

\* The steps the watcher task takes by itself.
WatcherStep ==
    \/ RunSelect
    \/ StartActivity
    \/ ScanFalse
    \/ BackoffCancelled
    \/ BackoffElapsed
    \/ processLine
    \/ checkConvoyCompletion

WatchNext ==
    \/ Start
    \/ Stop
    \/ StopReturns
    \/ ContextKill
    \/ StreamEnds
    \/ RunSelect
    \/ StartActivity
    \/ ScanLine
    \/ ScanFalse
    \/ BackoffCancelled
    \/ BackoffElapsed
    \/ processLine
    \/ checkConvoyCompletion

WatchSpec == WatchInit /\ [][WatchNext]_vars

\* The watcher task is scheduled, its subprocesses and timers end, a cancelled
\* context kills its process and a waiting Stop is woken.
WatchLiveSpec ==
    WatchSpec /\ WF_vars(WatcherStep) /\ WF_vars(ContextKill) /\ WF_vars(StopReturns)

\* ---------------------------- the watcher and CheckConvoysForIssue, interleaved

\* The item whose close both of them handle.
RaceItem == "gt-x"

\* gt-x is closed, its close event is in the feed and no convoy is closed yet;
\* the other items are open or closed.
RaceInit ==
    /\ OffRaceQuiet
    /\ issueStatus \in {s \in [Items -> {"open", "closed"}] : s[RaceItem] = "closed"}
    /\ convoyStatus = [c \in Convoys |-> "open"]
    /\ deps \in DependencyTables
    /\ feed = <<bdActivityEvent("status", RaceItem, "closed")>>
    /\ delivered = 1
    /\ watchPc = "idle"
    /\ event = NoEvent
    /\ convoyIDs = <<>>
    /\ wlog = <<>>
    /\ observed = NoObservation
    /\ observations = 0
    /\ obsPc = "idle"
    /\ obsIDs = <<>>

\* CheckConvoysForIssue up to its loop.
ObserverBegin ==
    /\ obsPc = "idle"
    /\ observations' = observations + 1
    /\ \E queryOk \in BOOLEAN :
          /\ obsIDs' \in Orderings(getTrackingConvoys(deps, RaceItem, queryOk))
          /\ observed' = Observation(RaceItem, queryOk, <<>>, convoyStatus, convoyStatus)
    /\ obsPc' = IF obsIDs' = <<>> THEN "done" ELSE "checking"
    /\ UNCHANGED <<offRace, issueStatus, convoyStatus, deps, feed, delivered, watchPc,
                   event, convoyIDs, wlog>>

\* One pass of the loop of CheckConvoysForIssue.
ObserverTurn ==
    /\ obsPc = "checking"
    /\ \E queryOk \in BOOLEAN, checkOk \in BOOLEAN :
          LET convoyID == Head(obsIDs)
              turn == ObserveConvoys(<<convoyID>>, deps, issueStatus, convoyStatus,
                                     IF queryOk THEN {} ELSE {convoyID},
                                     IF checkOk THEN {convoyID} ELSE {})[1]
          IN  /\ ~turn.ran => checkOk
              /\ convoyStatus' = turn.after
              /\ observed' = [observed EXCEPT !.turns = Append(@, turn),
                                              !.after = turn.after]
    /\ obsIDs' = Tail(obsIDs)
    /\ obsPc' = IF Tail(obsIDs) = <<>> THEN "done" ELSE "checking"
    /\ UNCHANGED <<offRace, issueStatus, deps, feed, delivered, watchPc, event,
                   convoyIDs, wlog, observations>>

RaceNext ==
    \/ processLine
    \/ checkConvoyCompletion
    \/ ObserverBegin
    \/ ObserverTurn

RaceSpec == RaceInit /\ [][RaceNext]_vars

\* ---------------------------------------------------------- the sweep checks

\* One agent bead holds any record, the others are idle.
SweepInit ==
    /\ OffSweepQuiet
    /\ \E focus \in AgentIds, rec \in AgentRecords :
          agents = [a \in AgentIds |-> IF a = focus THEN rec ELSE IdleRecord]
    /\ sweeps = 0
    /\ swept = Swept("none", agents, agents, {}, TRUE, TRUE)

\* markAgentDead: bd update --description with agent_state: dead and the
\* bead's own hook_bead.  Whether bd carries the state of the description over
\* to the agent_state column is not the daemon's doing: both outcomes.
markAgentDead(rec, column) ==
    [rec EXCEPT !.state = "dead", !.age = 0,
                !.column = IF column THEN "dead" ELSE @]

\* checkStaleAgents: mark dead every candidate bead that can be read, reports
\* running or working and was last updated more than DeadAgentTimeout ago; a
\* failed bd show skips the bead, a failed bd update is only logged.
checkStaleAgents ==
    /\ sweeps < MaxSweeps
    /\ sweeps' = sweeps + 1
    /\ \E rigsOk \in BOOLEAN, showOk \in BOOLEAN, updateOk \in BOOLEAN, column \in BOOLEAN :
          LET found == {a \in StaleCandidates(rigsOk) \cap AgentIds : showOk}
              stale == {a \in found : /\ ReportsActive(agents[a].state)
                                      /\ agents[a].tsOk
                                      /\ IsStaleAgent(agents[a].age)}
              after == [a \in AgentIds |->
                          IF a \in stale /\ updateOk
                          THEN markAgentDead(agents[a], column)
                          ELSE agents[a]]
          IN  /\ agents' = after
              /\ swept' = Swept("stale", agents, after, {}, rigsOk,
                                rigsOk /\ showOk /\ updateOk)
    /\ UNCHANGED offSweep

\* checkRigGUPPViolations for one rig: the mails it sends.
RigGUPPViolations(rigName) ==
    {Notification("GUPP_VIOLATION", rigName, a, agents[a].hook) :
        a \in {b \in AgentIds :
                 /\ HasPrefix(b, PolecatPrefix \o rigName \o <<"-">>)
                 /\ agents[b].hook # <<>>
                 /\ ReportsActive(agents[b].column)
                 /\ agents[b].tsOk
                 /\ IsGUPPViolation(agents[b].age)}}

\* checkGUPPViolations: checkRigGUPPViolations for every known rig; a failed
\* bd list ends the rig's check, a failed gt mail send is only logged.
checkGUPPViolations ==
    /\ sweeps < MaxSweeps
    /\ sweeps' = sweeps + 1
    /\ \E listOk \in BOOLEAN, sendOk \in BOOLEAN :
          LET sent == IF listOk THEN UNION {RigGUPPViolations(r) : r \in SweepRigs}
                      ELSE {}
          IN  swept' = Swept("gupp", agents, agents, sent, TRUE, listOk /\ sendOk)
    /\ UNCHANGED <<offSweep, agents>>

\* getDeadAgents: the beads whose agent_state column is dead; nil when bd list
\* fails.
getDeadAgents(listOk) ==
    IF listOk THEN {a \in AgentIds : agents[a].column = "dead"} ELSE {}

\* checkOrphanedWork: a mail to the witness of the rig read from the id of every
\* dead agent with hooked work, when a rig can be read from it.
checkOrphanedWork ==
    /\ sweeps < MaxSweeps
    /\ sweeps' = sweeps + 1
    /\ \E listOk \in BOOLEAN, sendOk \in BOOLEAN :
          LET orphaned == {a \in getDeadAgents(listOk) : agents[a].hook # <<>>}
              sent == {Notification("ORPHANED_WORK", extractRigFromAgentID(a), a,
                                    agents[a].hook) :
                          a \in {b \in orphaned : extractRigFromAgentID(b) # <<>>}}
          IN  swept' = Swept("orphan", agents, agents, sent, TRUE, listOk /\ sendOk)
    /\ UNCHANGED <<offSweep, agents>>

SweepNext ==
    \/ checkStaleAgents
    \/ checkGUPPViolations
    \/ checkOrphanedWork

SweepSpec == SweepInit /\ [][SweepNext]_vars

\* ------------------------------------------------------------ session names

\* An identity to name and parse back, or a session name to parse and rebuild.
IdentInit ==
    /\ OffIdentQuiet
    /\ \/ \E a \in AgentIdentities :
             /\ given = [kind |-> "identity", identity |-> a]
             /\ session = NoName
       \/ \E s \in SessionStrings :
             /\ given = [kind |-> "session"]
             /\ session = Named(s)
    /\ parseResult = Unset
    /\ rebuilt = NoName
    /\ resolved = Unresolved

\* id.SessionName() of the given identity.
NameIdentity ==
    /\ given.kind = "identity"
    /\ ~session.set
    /\ session' = Named(SessionName(given.identity))
    /\ UNCHANGED <<offIdent, given, parseResult, rebuilt, resolved>>

\* ParseSessionName of the session name.
ParseName ==
    /\ session.set
    /\ parseResult = Unset
    /\ parseResult' = ParseSessionName(session.name)
    /\ UNCHANGED <<offIdent, given, session, rebuilt, resolved>>

\* SessionName() of the identity parsed.
RebuildName ==
    /\ parseResult # Unset
    /\ parseResult.ok
    /\ ~rebuilt.set
    /\ rebuilt' = Named(SessionName(parseResult.identity))
    /\ UNCHANGED <<offIdent, given, session, parseResult, resolved>>

\* A lifecycle request from the given agent is executed: identityToSession and
\* identityToStateFile of its From.
ResolveSender ==
    /\ given.kind = "identity"
    /\ ~resolved.set
    /\ \E from \in FromForms(given.identity) : resolved' = Resolved(from)
    /\ UNCHANGED <<offIdent, given, session, parseResult, rebuilt>>

IdentNext ==
    \/ NameIdentity
    \/ ParseName
    \/ RebuildName
    \/ ResolveSender

IdentSpec == IdentInit /\ [][IdentNext]_vars

\* ------------------------------------------------------ persisted agent state

StateInit == OffStateQuiet /\ StateQuiet

\* time.Now() moves on.
StateTimePasses ==
    /\ stateClock < MaxStateClock
    /\ stateClock' = stateClock + 1
    /\ UNCHANGED <<offState, stateAgents, stateCalls, stateCall>>

CallGetAgentState ==
    /\ stateCalls < MaxStateCalls
    /\ \E id \in StateAgentIDs :
          /\ stateAgents' = GetAgentState(stateAgents, id)
          /\ stateCall' = StateCall("GetAgentState", id, <<>>, "", "", stateClock, stateAgents)
    /\ stateCalls' = stateCalls + 1
    /\ UNCHANGED <<offState, stateClock>>

CallScheduleRespawn ==
    /\ stateCalls < MaxStateCalls
    /\ \E id \in StateAgentIDs, sess \in StateSessions, role \in StateRoles,
          reason \in ExitReasons :
          /\ stateAgents' = ScheduleRespawn(stateAgents, id, sess, role, reason, stateClock)
          /\ stateCall' = StateCall("ScheduleRespawn", id, sess, role, reason, stateClock,
                                    stateAgents)
    /\ stateCalls' = stateCalls + 1
    /\ UNCHANGED <<offState, stateClock>>

CallClearRespawn ==
    /\ stateCalls < MaxStateCalls
    /\ \E id \in StateAgentIDs, sess \in StateSessions :
          /\ stateAgents' = ClearRespawn(stateAgents, id, sess)
          /\ stateCall' = StateCall("ClearRespawn", id, sess, "", "", stateClock, stateAgents)
    /\ stateCalls' = stateCalls + 1
    /\ UNCHANGED <<offState, stateClock>>

CallUpdatePatrolCompleted ==
    /\ stateCalls < MaxStateCalls
    /\ \E id \in StateAgentIDs :
          /\ stateAgents' = UpdatePatrolCompleted(stateAgents, id, stateClock)
          /\ stateCall' = StateCall("UpdatePatrolCompleted", id, <<>>, "", "", stateClock,
                                    stateAgents)
    /\ stateCalls' = stateCalls + 1
    /\ UNCHANGED <<offState, stateClock>>

StateNext ==
    \/ StateTimePasses
    \/ CallGetAgentState
    \/ CallScheduleRespawn
    \/ CallClearRespawn
    \/ CallUpdatePatrolCompleted

StateSpec == StateInit /\ [][StateNext]_vars

\* ------------------------------------------- gt doctor beside the daemon

\* The mail of the crew worker: a cycle request (its flag is staged), a
\* restart request, a message that is no request and a request seven hours old.
HygieneMail(clock) ==
    {Mail(CrewId, LifecycleSubject, JsonBody("cycle"), TimeAt(clock), FALSE),
     Mail(CrewId, LifecycleSubject, JsonBody("restart"), TimeAt(clock), FALSE),
     Mail(CrewId, <<"hello">>, JsonBody("restart"), TimeAt(clock), FALSE),
     Mail(CrewId, LifecycleSubject, JsonBody("shutdown"), TimeAt(clock - 7), FALSE)}

\* The crew worker has staged a cycle, its session is running, no doctor yet.
HygieneInit ==
    /\ inbox = <<>>
    /\ nextId = 1
    /\ files = [path \in StatePaths |-> Staged(ActionCycle, "true")]
    /\ sessions = SessionNames
    /\ now = 0
    /\ pc = "idle"
    /\ messages = <<>>
    /\ idx = 0
    /\ request = NoRequest
    /\ ticks = 0
    /\ log = <<>>
    /\ seen = NotRead
    /\ actionRuns = [i \in MsgIds |-> 0]
    /\ DoctorQuiet
    /\ OffHygieneQuiet

\* LifecycleHygieneCheck.Run: both lists are rebuilt.
Run ==
    /\ doctorPc = "idle"
    /\ \E ok \in BOOLEAN : staleMessages' = checkDeaconInbox(ok)
    /\ stuckStateFiles' = checkStateFiles
    /\ doctorPc' = "ran"
    /\ hygiene' = [hygiene EXCEPT !.ran = TRUE, !.fresh = {m.id : m \in FreshRequests},
                                  !.pending = PendingFlags]
    /\ UNCHANGED <<lifecycleVars, takenUp, offHygiene>>

\* LifecycleHygieneCheck.Fix: `gt mail delete` for every listed message, then
\* clearRequestingFlag for every listed flag; the commands and writes that
\* fail are collected into the error and change nothing.
Fix ==
    /\ doctorPc = "ran"
    /\ \E undeleted \in SUBSET {m.ID : m \in staleMessages},
          unwritten \in SUBSET stuckStateFiles :
          LET ids == {m.ID : m \in staleMessages} \ undeleted
              written == stuckStateFiles \ unwritten
          IN  /\ inbox' = DeleteMessages(inbox, ids)
              /\ files' = ClearFlags(files, written)
              /\ hygiene' =
                    [hygiene EXCEPT
                        !.fixed = TRUE,
                        !.fresh = {m.id : m \in FreshRequests},
                        !.pending = PendingFlags,
                        !.deleted = ids \cap InboxIds,
                        !.cleared = {[stateFile |-> st.stateFile, flag |-> st.flag] :
                                        st \in {x \in written :
                                                   /\ files[x.stateFile].kind = "json"
                                                   /\ files[x.stateFile].obj[x.flag] = "true"}}]
    /\ doctorPc' = "fixed"
    /\ UNCHANGED <<nextId, sessions, now, pc, messages, idx, request, ticks, log, seen,
                   actionRuns, staleMessages, stuckStateFiles, takenUp, offHygiene>>

\* A step of the daemon or of a sender: the doctor's lists are left alone, and
\* the requests the daemon has taken up are remembered.
DaemonStep ==
    /\ takenUp' = takenUp \cup {log'[i].id : i \in {j \in 1..Len(log') : log'[j].op = "begin"}}
    /\ UNCHANGED <<staleMessages, stuckStateFiles, doctorPc, hygiene, offHygiene>>

HygieneNext ==
    \/ SendMail(HygieneMail(now)) /\ DaemonStep
    \/ StartTick /\ DaemonStep
    \/ NextMessage /\ DaemonStep
    \/ Return /\ DaemonStep
    \/ CloseStale /\ DaemonStep
    \/ Claim /\ DaemonStep
    \/ Verify /\ DaemonStep
    \/ Probe /\ DaemonStep
    \/ Kill /\ DaemonStep
    \/ Restart /\ DaemonStep
    \/ Clear /\ DaemonStep
    \/ Run
    \/ Fix

HygieneSpec == HygieneInit /\ [][HygieneNext]_vars

\* ================================================================ claims

LogIdx == 1..Len(log)
Snapshot == {messages[k] : k \in 1..Len(messages)}
MsgOf(id) == CHOOSE m \in Snapshot : m.id = id
PosOf(id) == CHOOSE k \in 1..Len(messages) : messages[k].id = id
Has(id, op) == \E i \in LogIdx : log[i].id = id /\ log[i].op = op
HasOk(id, op, ok) == \E i \in LogIdx : log[i].id = id /\ log[i].op = op /\ log[i].ok = ok
\* The requests the current call has taken up, and their actions.
Begun == {log[i].id : i \in {j \in LogIdx : log[j].op = "begin"}}
BeginOf(id) == log[CHOOSE i \in LogIdx : log[i].id = id /\ log[i].op = "begin"]
ActionFor(id) == BeginOf(id).note
SessionOf(id) == identityToSession(MsgOf(id).from)
StateFileOf(id) == identityToStateFile(MsgOf(id).from)
\* Steps taken on behalf of a request once it is claimed.
ActionOps == {"identity", "verify", "probe", "kill", "create", "sendkeys", "clear", "return"}
SessionOps == {"kill", "create"}
\* The state right after executeLifecycleAction returned for request id.
JustReturned(id, ok) ==
    /\ log # <<>>
    /\ log[Len(log)].id = id
    /\ log[Len(log)].op = "return"
    /\ log[Len(log)].ok = ok
\* The age in hours at which a request was taken up, when its timestamp parses.
AgeKnown(id) == MsgOf(id).ts.valid
AgeOf(id) == BeginOf(id).at - MsgOf(id).ts.t

C2_AtMostOnce == \A id \in MsgIds : actionRuns[id] <= 1

\* C3: for every request that is executed, the delete of its message is
\* attempted before any step of its action (identity resolution, flag read,
\* session probe, kill, creation, flag write).
C3_ClaimBeforeExecute ==
    \A i \in LogIdx :
        log[i].op \in ActionOps =>
            \E j \in 1..(i - 1) : log[j].id = log[i].id /\ log[j].op = "delete"

\* C3 witness: a request went through kill, creation and flag write.
C3_Witness ==
    \E id \in Begun : HasOk(id, "kill", TRUE) /\ HasOk(id, "create", TRUE)
                      /\ HasOk(id, "clear", TRUE)

\* The precondition gate: a session is killed or created only after a
\* verification that read requesting_<action> = true; a verification that read
\* anything else fails the request at once, with no probe, kill, creation or
\* flag write, and leaves the state file as it was.
GateHolds ==
    /\ \A i \in LogIdx :
          log[i].op \in SessionOps =>
              \E j \in 1..(i - 1) : /\ log[j].id = log[i].id
                                    /\ log[j].op = "verify"
                                    /\ log[j].note = "true"
    /\ \A j \in LogIdx :
          (log[j].op = "verify" /\ log[j].note # "true") =>
              /\ ~log[j].ok
              /\ j < Len(log)
              /\ log[j + 1] = Ev(log[j].id, "return", FALSE)
              /\ \A i \in LogIdx :
                    log[i].id = log[j].id =>
                        log[i].op \notin {"probe", "kill", "create", "sendkeys", "clear"}
    /\ \A id \in Begun :
          (JustReturned(id, FALSE) /\ Has(id, "verify")) => files[StateFileOf(id)] = seen
RejectedIds == {log[j].id : j \in {k \in LogIdx : log[k].op = "verify" /\ ~log[k].ok}}

StaleGate ==
    /\ \A id \in Begun :
          (AgeKnown(id) /\ AgeOf(id) > 6) =>
              \A i \in LogIdx : log[i].id = id => log[i].op \in {"begin", "delete"}
    /\ Returned =>
          \A id \in Begun :
              /\ Has(id, "delete")
              /\ (AgeKnown(id) /\ AgeOf(id) <= 6) => Has(id, "return")
StaleIds == {id \in Begun : AgeKnown(id) /\ AgeOf(id) > 6}

C6_FlagClearedOnSuccess ==
    \A id \in Begun :
        JustReturned(id, TRUE) =>
            Observed(files[StateFileOf(id)], ActionFor(id)) # "true"

\* C7: a verified shutdown kills the requester's session if and only if the
\* probe found it, and never creates one; after a successful shutdown the
\* requester has no live session, and when the session was already absent the
\* action succeeds with no session operation.
C7_Shutdown ==
    \A id \in Begun :
        ActionFor(id) = ActionShutdown =>
            /\ ~Has(id, "create")
            /\ ~Has(id, "clear")
            /\ \A i \in LogIdx :
                  (log[i].id = id /\ log[i].op = "kill") =>
                      log[i - 1] = Event(id, "probe", TRUE, 0, "running")
            /\ \A i \in LogIdx :
                  (log[i] = Event(id, "probe", TRUE, 0, "absent")) =>
                      (i < Len(log) /\ log[i + 1] = Ev(id, "return", TRUE))
            /\ JustReturned(id, TRUE) =>
                  /\ SessionOf(id) \notin sessions
                  /\ HasOk(id, "kill", TRUE)
                        <=> (\E i \in LogIdx : log[i] = Event(id, "probe", TRUE, 0, "running"))

\* C7 witness: one call handled a shutdown that killed a live session and a
\* shutdown that found none.
C7_Witness ==
    /\ \E id \in Begun : ActionFor(id) = ActionShutdown /\ HasOk(id, "kill", TRUE)
                         /\ HasOk(id, "return", TRUE)
    /\ \E id \in Begun : ActionFor(id) = ActionShutdown /\ ~Has(id, "kill")
                         /\ JustReturned(id, TRUE)

\* C8 (as amended): a verified restart or cycle kills the requester's session
\* if the probe found it and then creates a fresh session of the same name, the
\* kill strictly before the creation; when the action returns success a
\* session exists for the requester, and, unless clearing the flag failed
\* (which is only logged), requesting_<action> and requesting_time are removed
\* from its state file while its other keys are unchanged.
RestartShape(id) ==
    /\ \A i, j \in LogIdx :
          (log[i].id = id /\ log[i].op = "kill" /\ log[j].id = id /\ log[j].op = "create")
              => i < j
    /\ \A i \in LogIdx :
          (log[i].id = id /\ log[i].op = "create") =>
              \/ log[i - 1] = Event(id, "probe", TRUE, 0, "absent")
              \/ log[i - 1] = Ev(id, "kill", TRUE)
    /\ \A i \in LogIdx :
          (log[i].id = id /\ log[i].op = "kill") =>
              log[i - 1] = Event(id, "probe", TRUE, 0, "running")
    /\ JustReturned(id, TRUE) => (HasOk(id, "create", TRUE) /\ SessionOf(id) \in sessions)
FlagRemoved(id) ==
    LET obj == files[StateFileOf(id)].obj
    IN  /\ files[StateFileOf(id)].kind = "json"
        /\ obj[RequestingKey(ActionFor(id))] = "missing"
        /\ obj["requesting_time"] = "missing"
        /\ \A k \in StateKeys \ {RequestingKey(ActionFor(id)), "requesting_time"} :
              obj[k] = seen.obj[k]
RestartIds == {id \in Begun : ActionFor(id) \in {ActionCycle, ActionRestart}}
ActionNames == {"restart", "shutdown", "stop", "cycle"}
PlainTextFallbacks ==
    {<<"restart">>, <<"action", ":", " ", "restart">>,
     <<"shutdown">>, <<"action", ":", " ", "shutdown">>, <<"stop">>,
     <<"cycle">>, <<"action", ":", " ", "cycle">>}
HasMarker(m) ==
    /\ Len(m.subject) >= 2
    /\ ToLowerWord(m.subject[1]) = "lifecycle"
    /\ m.subject[2] = ":"
NamedAction(m) ==
    IF m.body.json THEN ToLowerWord(m.body.action)
    ELSE LET t == ToLower(TrimSpace(m.body.text))
         IN  IF t \in PlainTextFallbacks THEN t[Len(t)] ELSE ""
Qualifies(m) == ~m.read /\ HasMarker(m) /\ NamedAction(m) \in ActionNames
ExpectedAction(m) ==
    IF NamedAction(m) = "stop" THEN ActionShutdown
    ELSE CHOOSE a \in LifecycleActions : a = NamedAction(m)

\* C9: a call leaves untouched every inbox message that does not qualify (read
\* already, subject without the LIFECYCLE: marker in any case, or a marked
\* message whose body names none of restart, shutdown, stop, cycle and is none
\* of the plain-text fallbacks): nothing is done on its behalf and it stays in
\* the inbox as it was; a qualifying message is taken up with 'stop' mapped to
\* shutdown and otherwise the action it names.
C9_NonQualifyingUntouched ==
    \A k \in 1..Len(messages) :
        LET m == messages[k]
        IN  /\ ~Qualifies(m) =>
                  /\ \A i \in LogIdx : log[i].id # m.id
                  /\ \E j \in 1..Len(inbox) : inbox[j] = m
            /\ m.id \in Begun => (Qualifies(m) /\ ActionFor(m.id) = ExpectedAction(m))
            /\ (Returned /\ Qualifies(m)) => m.id \in Begun

\* C9 witness: a call has returned having skipped a marked message with an
\* unrecognised body and taken up a 'STOP' request as a shutdown.
C9_Witness ==
    /\ Returned
    /\ \E m \in Snapshot : /\ ~m.read /\ HasMarker(m) /\ ~Qualifies(m)
                           /\ \E j \in 1..Len(inbox) : inbox[j] = m
    /\ \E m \in Snapshot : /\ m.body = JsonBody("STOP")
                           /\ m.id \in Begun
                           /\ ActionFor(m.id) = ActionShutdown

\* C10: within one call requests are handled in inbox order, each to
\* completion before the next starts, and the failure of any step for one
\* request (delete error, unknown identity, failed precondition, kill or
\* restart error) does not keep the remaining requests from being handled.
C10_InOrderToCompletion ==
    /\ \A i, j \in LogIdx : i < j => PosOf(log[i].id) <= PosOf(log[j].id)
    /\ (Returned /\ messages # <<>>) =>
          \A m \in Snapshot :
              Qualifies(m) =>
                  /\ m.id \in Begun
                  /\ Has(m.id, "delete")
                  /\ Has(m.id, "return") \/ m.id \in StaleIds

\* C10 witness: the first request of a call failed and the second one was
\* still executed.
C10_Witness ==
    /\ Returned
    /\ Len(messages) = 2
    /\ HasOk(messages[1].id, "return", FALSE)
    /\ Has(messages[2].id, "return")

\* ------------------------------------------------------ health evaluator

\* The age of the heartbeat a check was given, when it was given one.
HeartbeatRecorded(v) == ~IsZero(v.heartbeat)
HeartbeatAgeOf(v) == v.at - v.heartbeat.t
\* The heartbeats a check could have been given.
AnyHeartbeat(clock) == {ZeroTime} \cup {At(clock - a) : a \in HeartbeatAges}
Checked == {r \in PatrolRoles : verdict[r].checked}

\* C11: for a session that is not alive checkAgentHealth returns needs_respawn
\* if no death is recorded or at least RespawnDelay has passed since LastDeath,
\* and waiting_respawn otherwise, whatever the heartbeat; with RespawnDelay = 0
\* every dead session is needs_respawn.
C11_DeadSessionStatus ==
    (eval.checked /\ eval.probe = "dead") =>
        LET c == eval.config
            elapsed == IsZero(c.LastDeath) \/ eval.at - c.LastDeath.t >= c.RespawnDelay
        IN  /\ eval.result.Status =
                  IF elapsed THEN StatusNeedsRespawn ELSE StatusWaitingRespawn
            /\ c.RespawnDelay = 0 => eval.result.Status = StatusNeedsRespawn
            /\ \A hb \in AnyHeartbeat(eval.at) :
                  checkAgentHealth(c, "dead", hb, eval.at).Status = eval.result.Status

\* C11 witness: a dead session whose death was recorded 29 seconds ago waits
\* for its 30-second delay although its heartbeat is over 30 minutes old.
C11_Witness ==
    /\ eval.checked
    /\ eval.probe = "dead"
    /\ eval.config.RespawnDelay = 30
    /\ ~IsZero(eval.config.LastDeath)
    /\ eval.at - eval.config.LastDeath.t = 29
    /\ HeartbeatRecorded(eval) /\ HeartbeatAgeOf(eval) = 1801
    /\ eval.result.Status = StatusWaitingRespawn

C13_ProbeErrorIsHealthy ==
    \A r \in Checked :
        verdict[r].probe = "error" =>
            /\ verdict[r].result.Status = StatusHealthy
            /\ verdict[r].result.Message = "error checking session"
            /\ verdict[r].remediation = "none"

\* C13 witness: the probe failed for a live agent whose heartbeat label is over
\* 30 minutes old, and nothing was done to it.
C13_Witness ==
    \E r \in Checked :
        /\ verdict[r].probe = "error"
        /\ r \in alive
        /\ ~IsZero(lastActivity[r])
        /\ verdict[r].at - lastActivity[r].t > CriticalStuckThreshold
        /\ verdict[r].remediation = "none"

\* C14: on a stuck classification handleStuckAgent attempts exactly one
\* remediation: the kill of the session when HeartbeatAge is strictly greater
\* than 30 minutes, and otherwise a nudge that leaves the session running.
C14_StuckRemediation ==
    (eval.checked /\ eval.remediation # "none") =>
        /\ eval.result.Status = StatusStuck
        /\ eval.remediation =
              IF HeartbeatAgeOf(eval) > 1800 THEN "kill" ELSE "nudge"
        /\ eval.remediation = "nudge" => eval.config.Role \in alive
        /\ (eval.remediation = "kill" /\ eval.ok) => eval.config.Role \notin alive

\* C14 witness (Scenario B): a live witness with a heartbeat 20 minutes old and
\* a 10-minute threshold is nudged and still running.
C14_Witness ==
    /\ eval.checked
    /\ eval.config.Role = "witness"
    /\ eval.config.StuckThreshold = 600
    /\ HeartbeatAgeOf(eval) = 1200
    /\ eval.remediation = "nudge"
    /\ "witness" \in alive

\* C15: a session killed by stuck remediation was nudged by the health check
\* in an earlier tick of the same session's lifetime.
C15_NudgeBeforeKill ==
    \A r \in Checked : verdict[r].remediation = "kill" => r \in nudged

\* C16: a session that is not alive is never nudged and never killed by the
\* health check: the check yields needs_respawn or waiting_respawn and
\* handleStuckAgent is not invoked.
C16_DeadNeverRemediated ==
    \A r \in Checked :
        verdict[r].probe = "dead" =>
            /\ verdict[r].result.Status \in {StatusNeedsRespawn, StatusWaitingRespawn}
            /\ verdict[r].remediation = "none"

\* C16 witness: a dead agent whose heartbeat label is over 30 minutes old was
\* checked and left alone.
C16_Witness ==
    \E r \in Checked :
        /\ verdict[r].probe = "dead"
        /\ HeartbeatRecorded(verdict[r])
        /\ HeartbeatAgeOf(verdict[r]) > CriticalStuckThreshold
        /\ verdict[r].remediation = "none"

\* C17: the per-tick check classifies each patrol agent with the policy of its
\* own role: the StuckThreshold and RespawnDelay it uses are those of
\* GetRespawnConfig(role), and so is the resulting status.
C17_RolePolicyUsed ==
    \A r \in Checked :
        LET v == verdict[r]
            policy == AgentHealthConfig(r, GetRespawnConfig(r).StuckThreshold,
                                        GetRespawnConfig(r).Delay, v.config.LastDeath)
        IN  /\ v.config.StuckThreshold = GetRespawnConfig(r).StuckThreshold
            /\ v.config.RespawnDelay = GetRespawnConfig(r).Delay
            /\ v.result.Status = checkAgentHealth(policy, v.probe, v.heartbeat, v.at).Status

\* C18: once a check has found a patrol agent's session dead, the checks of
\* later ticks classify it waiting_respawn until RespawnDelay has passed since
\* that death, and needs_respawn only afterwards.
C18_DelayEnforced ==
    \A r \in Checked :
        LET v == verdict[r]
        IN  (/\ v.probe = "dead"
             /\ ~IsZero(firstDead[r])
             /\ firstDead[r].t < v.at) =>
                v.result.Status =
                    IF v.at - firstDead[r].t < v.config.RespawnDelay
                    THEN StatusWaitingRespawn ELSE StatusNeedsRespawn

\* ---------------------------------------------------------- convoy watcher

\* The convoys that declare a tracks relation to an item, by its id or by an
\* external reference to it.
TrackersOf(issue) ==
    {row.issue_id : row \in {r \in deps : r.type = "tracks" /\ RefersTo(r.depends_on_id) = issue}}
WatcherTurns == 1..Len(wlog)
TurnsOf(c) == {i \in WatcherTurns : wlog[i].convoy = c}
\* The watcher is through with a line that was the close of an item.
CloseHandled == watchPc = "idle" /\ event.read /\ event.detected
\* What a run of gt convoy check <id> must have done to the convoy statuses.
TargetedOutcome(e) ==
    /\ e.after[e.convoy] = IF e.checkOk /\ e.complete THEN "closed" ELSE e.before[e.convoy]
    /\ \A c \in Convoys \ {e.convoy} : e.after[c] = e.before[c]
ObserverTurns == 1..Len(observed.turns)

C20_ClosedStaysClosed ==
    /\ \A i \in WatcherTurns :
          /\ \A c \in Convoys : wlog[i].before[c] = "closed" => wlog[i].after[c] = "closed"
          /\ wlog[i].was = "closed" => ~wlog[i].ran /\ wlog[i].after = wlog[i].before
          /\ \A c \in Convoys \ {wlog[i].convoy} : wlog[i].after[c] = wlog[i].before[c]
    /\ observed.called =>
          /\ \A c \in Convoys :
                observed.before[c] = "closed" => observed.after[c] = "closed"
          /\ \A i \in ObserverTurns :
                observed.turns[i].was = "closed" /\ observed.turns[i].ok
                   => ~observed.turns[i].ran
          /\ (\A i \in ObserverTurns :
                 observed.turns[i].was = "closed" /\ observed.turns[i].ok)
                => observed.after = observed.before

\* C20 (as stated): a closed convoy stays closed, is never re-checked by the
\* watcher or by CheckConvoysForIssue, and a call that finds every tracking
\* convoy closed changes no convoy's status.
C20_ClosedNeverRechecked ==
    /\ \A i \in WatcherTurns :
          /\ \A c \in Convoys : wlog[i].before[c] = "closed" => wlog[i].after[c] = "closed"
          /\ wlog[i].was = "closed" => ~wlog[i].ran /\ wlog[i].after = wlog[i].before
    /\ observed.called =>
          /\ \A c \in Convoys :
                observed.before[c] = "closed" => observed.after[c] = "closed"
          /\ \A i \in ObserverTurns :
                observed.turns[i].was = "closed" => ~observed.turns[i].ran
          /\ (\A i \in ObserverTurns : observed.turns[i].was = "closed")
                => observed.after = observed.before

\* The close of an item was delivered again after its convoy had closed: the
\* watcher found the convoy closed and ran no check, and so did
\* CheckConvoysForIssue.
C20_Witness ==
    /\ CloseHandled
    /\ \E i \in WatcherTurns : wlog[i].was = "closed" /\ wlog[i].ok /\ ~wlog[i].ran
    /\ observed.called
    /\ \E i \in ObserverTurns :
          /\ observed.turns[i].was = "closed"
          /\ observed.turns[i].ok
          /\ ~observed.turns[i].ran
    /\ \E c \in Convoys : convoyStatus[c] = "closed"

\* ------------------------------------------------------ convoy watcher task

\* A line that is a status change to closed.
IsClosure(line) == line.kind = "json" /\ line.Type = "status" /\ line.NewStatus = "closed"
LastLine == lines[Len(lines)]

\* C21: a line that is blank, does not decode, or is not a status change to
\* closed causes no query of the store and no completion check, and leaves the
\* watcher in its read loop: the line scanned after it is handed to processLine
\* like any other, and the subscription ends only by the stream or by
\* cancellation.
C21_NonCloseSkipped ==
    /\ (event.read /\ ~IsClosure(event.line)) =>
          /\ ~event.detected
          /\ wlog = <<>>
          /\ convoyIDs = <<>>
          /\ watchPc = "idle"
    /\ (lines # <<>> /\ feed = <<>>) => (event.read /\ event.line = LastLine)
    /\ (lines # <<>> /\ endedBy = EndNone) => runPc = "reading"

\* A malformed line was skipped and the close of gt-x read after it in the same
\* subscription was handled, with completion checks.
C21_Witness ==
    /\ Len(lines) = 2
    /\ lines[1] = MalformedLine
    /\ IsClosure(lines[2])
    /\ event.read /\ event.detected /\ event.line = lines[2]
    /\ watchPc = "idle"
    /\ \E i \in 1..Len(wlog) : wlog[i].ran

\* C22: every call of watchActivity after the first is made after run has
\* waited the 5-second backoff since the previous call returned.
C22_BackoffBeforeResubscribe ==
    attempts >= 2 => gap = RetryBackoff

\* C23: once Stop has cancelled the watcher, no bd activity process is started
\* under the cancelled context, the task returns only with the process of its
\* subscription gone, Stop returns only after the task has returned, and both
\* do return.
C23_StopTerminates ==
    /\ [](~openedCancelled)
    /\ [](runPc = "returned" => sub # "running")
    /\ [](stopPc = "returned" => runPc = "returned")
    /\ (stopPc = "waiting" ~> (stopPc = "returned" /\ runPc = "returned"))

\* Stop was called while the watcher was reading: the process was killed, the
\* task returned and then Stop.
C23_Witness ==
    /\ stopPc = "returned"
    /\ runPc = "returned"
    /\ sub = "killed"
    /\ endedBy = EndStreamError

\* C25: when the watcher is handed the close of an item that leaves an open
\* convoy tracking it with no open item, that convoy is eventually closed.
C25_CompleteConvoyCloses ==
    \A c \in Convoys :
       (/\ feed # <<>>
        /\ IsClosure(Head(feed))
        /\ c \in TrackersOf(Head(feed).IssueID)
        /\ Complete(deps, issueStatus, c)
        /\ convoyStatus[c] = "open")
       ~> (convoyStatus[c] = "closed")

\* ------------------------------------- watcher and observer, interleaved

\* Both the watcher and CheckConvoysForIssue are through with the close.
RaceDone ==
    /\ event.read /\ feed = <<>> /\ watchPc = "idle"
    /\ obsPc = "done"
\* Every query and every run of gt convoy check made by the two succeeded.
RaceUnfailed ==
    /\ event.queryOk
    /\ \A i \in WatcherTurns : wlog[i].ok /\ wlog[i].checkOk
    /\ observed.ok
    /\ \A i \in ObserverTurns : observed.turns[i].ok /\ observed.turns[i].checkOk
NoneClosed == [c \in Convoys |-> "open"]
\* The watcher's handling of the close, run alone without failures.
RECURSIVE WatcherLoop(_, _)
WatcherLoop(ids, statuses) ==
    IF ids = <<>> THEN statuses
    ELSE WatcherLoop(Tail(ids),
            IF AlreadyClosed(statuses[Head(ids)]) THEN statuses
            ELSE ConvoyCheck({Head(ids)}, deps, issueStatus, statuses, TRUE))
AnyOrder(S) == CHOOSE s \in Orderings(S) : TRUE
WatcherAlone(statuses) ==
    WatcherLoop(AnyOrder(getTrackingConvoys(deps, RaceItem, TRUE)), statuses)
\* CheckConvoysForIssue, run alone without failures.
ObserverAlone(statuses) ==
    LET ids == AnyOrder(getTrackingConvoys(deps, RaceItem, TRUE))
        turns == ObserveConvoys(ids, deps, issueStatus, statuses, {},
                                {ids[k] : k \in 1..Len(ids)})
    IN  IF turns = <<>> THEN statuses ELSE turns[Len(turns)].after
WatcherThenObserver == ObserverAlone(WatcherAlone(NoneClosed))
ObserverThenWatcher == WatcherAlone(ObserverAlone(NoneClosed))

StaleActive(rec, timeout) ==
    /\ rec.state \in {"running", "working"}
    /\ rec.tsOk
    /\ rec.age > timeout
\* The bead as bd list shows it.
Listed(rec) == [rec EXCEPT !.state = rec.column]

\* C26: when every call of the stale-liveness sweep succeeds, every agent, of
\* any role, that reports running or working and was last updated more than
\* DeadAgentTimeout ago is marked dead, and every other agent's bead is left as
\* it was.
C26_StaleAgentsMarkedDead ==
    (swept.sweep = "stale" /\ swept.clean) =>
        \A b \in AgentBeads :
            IF StaleActive(swept.before[b.id], DeadAgentTimeout)
            THEN swept.after[b.id].state = "dead"
            ELSE swept.after[b.id] = swept.before[b.id]

\* C27: when every call of the stalled-assignment sweep succeeds, the mails it
\* sends are exactly one to the witness of its own rig for every agent of a rig
\* that holds hooked work, reports working or running and was last updated more
\* than GUPPViolationTimeout ago, and no bead is changed.
C27_WitnessToldOfStalled ==
    (swept.sweep = "gupp" /\ swept.clean) =>
        /\ swept.after = swept.before
        /\ swept.sent =
              {Notification("GUPP_VIOLATION", b.rig, b.id, swept.before[b.id].hook) :
                  b \in {c \in AgentBeads :
                           /\ c.rig # <<>>
                           /\ swept.before[c.id].hook # <<>>
                           /\ StaleActive(Listed(swept.before[c.id]), GUPPViolationTimeout)}}

\* C28: when every call of the orphan sweep succeeds, the agents it sends an
\* orphaned-work mail for are exactly the agents, of any role, that are marked
\* dead and still hold hooked work.
C28_OrphanedWorkNotified ==
    (swept.sweep = "orphan" /\ swept.clean) =>
        {n.agent : n \in swept.sent} =
            {b.id : b \in {c \in AgentBeads : /\ Listed(swept.before[c.id]).state = "dead"
                                              /\ swept.before[c.id].hook # <<>>}}

\* C29: the identity parsed from the session name of an identity, of any role
\* and with any non-empty names, is that identity.
C29_RoundTripLossless ==
    (given.kind = "identity" /\ parseResult # Unset) =>
        (parseResult.ok /\ parseResult.identity = given.identity)

\* A session name that ParseSessionName must refuse: it does not start with
\* "gt-", or nothing follows "gt-", or what follows has no hyphen.
Refused(s) ==
    \/ Len(s) < 2
    \/ s[1] # "gt"
    \/ s[2] # "-"
    \/ \A i \in 3..Len(s) : s[i] # "-"

\* C30: the session name rebuilt from a parsed identity is the session name that
\* was parsed, and a session name without the gt- prefix, with nothing after it
\* or with a single segment after it is not parsed.
C30_ParseThenReconstruct ==
    /\ rebuilt.set => rebuilt.name = session.name
    /\ (parseResult # Unset /\ Refused(session.name)) => ~parseResult.ok

\* A crew session name with hyphens in rig and name was parsed and rebuilt, and
\* a session name of one segment was refused.
C30_Witness ==
    /\ given.kind = "session"
    /\ rebuilt.set
    /\ parseResult.identity.Role = "crew"
    /\ Len(parseResult.identity.Rig) > 1
    /\ Len(session.name) >= 7

\* The respawn policy table as the claim gives it, in seconds.
PolicyOf(role) ==
    CASE role = "deacon" -> [Delay |-> 300, StuckThreshold |-> 900, Trigger |-> "always"]
      [] role = "witness" -> [Delay |-> 300, StuckThreshold |-> 600, Trigger |-> "always"]
      [] role = "refinery" -> [Delay |-> 0, StuckThreshold |-> 300, Trigger |-> "mq-not-empty"]
      [] OTHER -> [Delay |-> 300, StuckThreshold |-> 900, Trigger |-> "always"]

\* The entry of an agent in a map, the fresh entry when it has none.
EntryOf(s, id) == IF id \in DOMAIN s THEN s[id] ELSE NewAgentState

\* The entries of all agents but one are the same in two maps.
OthersSame(s, t, id) ==
    /\ DOMAIN t \ {id} = DOMAIN s \ {id}
    /\ \A a \in DOMAIN s \ {id} : t[a] = s[a]

\* C31: the respawn scheduled by ScheduleRespawn lies the delay of the role's
\* table entry after the exit, the default 5 minutes for a role the table does
\* not have; the lookup yields a policy for every role.
C31_PolicyLookupTotal ==
    /\ \A role \in StateRoles : GetRespawnConfig(role) = PolicyOf(role)
    /\ stateCall.op = "ScheduleRespawn" =>
          stateAgents[stateCall.agentID].RespawnScheduledAt.t
              = stateCall.now + PolicyOf(stateCall.role).Delay

\* A respawn was scheduled for a role the table does not have.
C31_Witness ==
    /\ stateCall.op = "ScheduleRespawn"
    /\ stateCall.role = "unknown-role"
    /\ stateAgents[stateCall.agentID].RespawnScheduledAt = At(stateCall.now + 300)

\* C32: ScheduleRespawn leaves an entry for the agent with the session and exit
\* reason given, LastExitedAt now and RespawnScheduledAt the role's delay later;
\* LastPatrolCompleted and all other entries are as before.
C32_ScheduleRespawn ==
    stateCall.op = "ScheduleRespawn" =>
        LET id == stateCall.agentID
        IN  /\ id \in DOMAIN stateAgents
            /\ stateAgents[id].Session = stateCall.session
            /\ stateAgents[id].ExitReason = stateCall.reason
            /\ stateAgents[id].LastExitedAt = At(stateCall.now)
            /\ stateAgents[id].RespawnScheduledAt
                  = At(stateCall.now + PolicyOf(stateCall.role).Delay)
            /\ stateAgents[id].LastPatrolCompleted
                  = EntryOf(stateCall.before, id).LastPatrolCompleted
            /\ OthersSame(stateCall.before, stateAgents, id)

\* A respawn was scheduled for a zero-delay role for an agent that had no entry,
\* while another agent has one.
C32_Witness ==
    /\ stateCall.op = "ScheduleRespawn"
    /\ stateCall.role = "refinery"
    /\ stateCall.agentID \notin DOMAIN stateCall.before
    /\ DOMAIN stateCall.before # {}
    /\ stateCall.now > 0
    /\ stateAgents[stateCall.agentID].RespawnScheduledAt
          = stateAgents[stateCall.agentID].LastExitedAt

\* C33 (as stated): after ClearRespawn the agent's runtime state is cleared: the
\* entry is the fresh entry but for the new session name.
C33_RuntimeStateCleared ==
    stateCall.op = "ClearRespawn" =>
        stateAgents[stateCall.agentID] = [NewAgentState EXCEPT !.Session = stateCall.session]

\* C33: after ClearRespawn, RespawnScheduledAt and LastExitedAt are nil,
\* ExitReason is empty and Session is the new session name; LastPatrolCompleted
\* and all other entries are as before.
C33_RespawnCleared ==
    stateCall.op = "ClearRespawn" =>
        LET id == stateCall.agentID
        IN  /\ id \in DOMAIN stateAgents
            /\ stateAgents[id].RespawnScheduledAt = NilTime
            /\ stateAgents[id].LastExitedAt = NilTime
            /\ stateAgents[id].ExitReason = ""
            /\ stateAgents[id].Session = stateCall.session
            /\ stateAgents[id].LastPatrolCompleted
                  = EntryOf(stateCall.before, id).LastPatrolCompleted
            /\ OthersSame(stateCall.before, stateAgents, id)

\* A scheduled respawn with an exit reason, of an agent with a recorded patrol,
\* was cleared.
C33_Witness ==
    /\ stateCall.op = "ClearRespawn"
    /\ stateCall.agentID \in DOMAIN stateCall.before
    /\ stateCall.before[stateCall.agentID].RespawnScheduledAt.set
    /\ stateCall.before[stateCall.agentID].ExitReason = "crash"
    /\ stateCall.before[stateCall.agentID].LastPatrolCompleted.set
    /\ stateCall.before[stateCall.agentID].Session # stateCall.session

\* C35: in every entry RespawnScheduledAt is set exactly if LastExitedAt is, and
\* is not earlier; an exit reason is there only while a respawn is scheduled;
\* a call changes no entry but that of its agent, and GetAgentState of an agent
\* with an entry changes nothing.
C35_EntryInvariant ==
    /\ \A a \in DOMAIN stateAgents :
          /\ stateAgents[a].RespawnScheduledAt.set = stateAgents[a].LastExitedAt.set
          /\ stateAgents[a].RespawnScheduledAt.set =>
                stateAgents[a].RespawnScheduledAt.t >= stateAgents[a].LastExitedAt.t
          /\ stateAgents[a].ExitReason # "" => stateAgents[a].RespawnScheduledAt.set
    /\ stateCall.op # "none" => OthersSame(stateCall.before, stateAgents, stateCall.agentID)
    /\ (stateCall.op = "GetAgentState" /\ stateCall.agentID \in DOMAIN stateCall.before) =>
          stateAgents = stateCall.before

\* Three calls were made, the last a GetAgentState of an agent whose respawn is
\* scheduled with a delay, while the other agent has an entry too.
C35_Witness ==
    /\ stateCalls = 3
    /\ stateCall.op = "GetAgentState"
    /\ DOMAIN stateAgents = StateAgentIDs
    /\ stateAgents[stateCall.agentID].ExitReason = "crash"
    /\ stateAgents[stateCall.agentID].RespawnScheduledAt.t
          > stateAgents[stateCall.agentID].LastExitedAt.t

\* The live session of a request's sender was killed and creating the new
\* session then failed.
KilledThenCreateFailed(id) == HasOk(id, "kill", TRUE) /\ HasOk(id, "create", FALSE)

\* C39: when a request's run has killed the live session and the creation of
\* the new one has failed, the run ends with no session for the sender and the
\* requesting flag still true, and from then on no creation of the session is
\* attempted for that message again, in that tick or a later one.
C39_FailedRestartNotRetried ==
    \A id \in MsgIds :
        /\ []((KilledThenCreateFailed(id) /\ log[Len(log)] = Ev(id, "return", FALSE)) =>
                 /\ SessionOf(id) \notin sessions
                 /\ Observed(files[StateFileOf(id)], ActionFor(id)) = "true")
        /\ [](KilledThenCreateFailed(id) =>
                 []((pc # "idle" /\ Has(id, "create")) => HasOk(id, "kill", TRUE)))

\* The state file of an agent under the town root.
StateFileOfAgent(a) ==
    CASE a.Role = RoleMayor -> <<"town", "/", "mayor", "/", "state.json">>
      [] a.Role = RoleDeacon -> <<"town", "/", "deacon", "/", "state.json">>
      [] a.Role = RoleWitness -> <<"town", "/">> \o a.Rig \o <<"/", "witness", "/", "state.json">>
      [] a.Role = RoleRefinery ->
            <<"town", "/">> \o a.Rig \o <<"/", "refinery", "/", "state.json">>
      [] a.Role = RoleCrew ->
            <<"town", "/">> \o a.Rig \o <<"/", "crew", "/">> \o a.Name \o <<"/", "state.json">>
      [] a.Role = RolePolecat ->
            <<"town", "/">> \o a.Rig \o <<"/", "polecats", "/">> \o a.Name
                \o <<"/", "state.json">>

\* C40: a request from an agent of this town, sent from its mail address (with
\* or without a trailing slash for mayor and deacon), is resolved to the
\* agent's session name and state file, never to the unknown identity.
C40_AddressResolves ==
    (resolved.set /\ (given.identity.Role \in {RoleMayor, RoleDeacon} =>
                         given.identity.Town = TownName)) =>
        /\ resolved.session # <<>>
        /\ resolved.session = SessionName(given.identity)
        /\ resolved.stateFile = StateFileOfAgent(given.identity)

\* C34: the doctor touches only what is stale: Run lists no request that is
\* fresh and not yet taken up by the daemon, Fix deletes no such request, and
\* Fix clears no flag of a request that is still pending.
C34_FixOnlyStale ==
    /\ (doctorPc = "ran" /\ ~hygiene.fixed) =>
          {m.ID : m \in staleMessages} \cap hygiene.fresh = {}
    /\ hygiene.fixed =>
          /\ hygiene.deleted \cap hygiene.fresh = {}
          /\ hygiene.cleared \cap hygiene.pending = {}

\* A clean stale sweep has just found the agent stale while it reported running
\* or working and held work.
FoundStaleHolding(b) ==
    /\ swept.sweep = "stale"
    /\ swept.clean
    /\ StaleActive(swept.before[b.id], DeadAgentTimeout)
    /\ swept.before[b.id].hook # <<>>

\* C36: an agent of any role with a rig that a stale sweep finds stale, while
\* it reports running or working and holds work, is marked dead by that sweep
\* with its work reference kept, and the orphan sweep that follows reports the
\* work to the witness of its rig.
C36_StaleThenOrphanReported ==
    /\ [](\A b \in {c \in AgentBeads : c.rig # <<>>} :
            FoundStaleHolding(b) =>
                /\ swept.after[b.id].state = "dead"
                /\ swept.after[b.id].hook = swept.before[b.id].hook)
    /\ [][\A b \in {c \in AgentBeads : c.rig # <<>>} :
            (FoundStaleHolding(b) /\ swept'.sweep = "orphan" /\ swept'.clean) =>
                Notification("ORPHANED_WORK", b.rig, b.id, swept.before[b.id].hook)
                    \in swept'.sent]_vars

\* The check of a role in this tick killed its session as critically stuck.
KilledStuck(r) ==
    /\ verdict[r].remediation = "kill"
    /\ verdict[r].ok
    /\ verdict[r].result.HeartbeatAge > 1800

Assumed(r) ==
    /\ lastActivity[r] = [set |-> TRUE, t |-> 0]
    /\ verdict[r].checked =>
          /\ verdict[r].probe # "error"
          /\ verdict[r].remediation = "kill" => verdict[r].ok
\* The check read the heartbeat off the agent bead.
BeadRead(r) ==
    (verdict[r].checked /\ verdict[r].probe = "alive") => verdict[r].heartbeat = lastActivity[r]
\* The check reports the session as waiting for or needing a respawn.
ReportedDead(r) ==
    /\ verdict[r].checked
    /\ verdict[r].result.Status \in {"needs_respawn", "waiting_respawn"}

====
